---- MODULE Spec2Model ----
(***************************************************************************)
(* Wallet ledger, payout engine and draw announcement of lotto-server.     *)
(* Money is counted in cents (Decimal values with two decimals).           *)
(***************************************************************************)
EXTENDS Integers, Sequences, FiniteSets, TLC

VARIABLES
    wallet,     \* Wallet rows, one per user: exists, totalBalance, reservedWinning
    ledger,     \* WalletTx rows in creation order
    lastOp,     \* the last wallet-service call and its outcome
    nops,       \* number of calls that changed the store
    txn,        \* open $transaction callbacks: what each has read so far
    cfg,        \* AppSettings row and the revision of BiddingService in use
    now,        \* the clock
    slot,       \* Slot rows
    bids,       \* Bid rows in creation order
    draws,      \* DrawResult rows
    ann,        \* announceResult calls in progress, one per caller
    attempts,   \* number of announceResult calls that passed the status guard
    place,      \* createBid calls in progress, one per agent
    calc,       \* one run of the payout engine: its inputs and what it computed
    auto        \* one run of the scheduled announcer: the bid table and what it picked

vars ==
    <<wallet, ledger, lastOp, nops, txn, cfg, now, slot, bids, draws, ann, attempts, place,
      calc, auto>>

walletVars == <<wallet, ledger, lastOp, nops, txn>>

bidVars == <<cfg, now, slot, bids, draws, ann, attempts, place, calc, auto>>

----------------------------------------------------------------------------
(* Bounds *)

MaxOps == 3

Users == {"u1", "u2"}

Amounts == {0, 5000, 20000}

MaxBids == 2

MaxTime == 1

MaxAttempts == 2

MaxSetup == 2

Procs == {1, 2}

Slots == {"s1"}

Callers == {"admin"}

\* the agents that place bids
Agents == {"u1"}

\* LD stakes a createBid request is let to carry: number (1..37) and count.
\* With these stakes, prizes and percentages no quotient the payout code rounds
\* sits on a half cent in a way that makes double arithmetic and Round2 differ.
LdStakes == {<<1, 1>>, <<1, 2>>, <<1, 7>>, <<2, 5>>}

JpCombos == {<<1, 2, 3, 4, 5, 6>>, <<6, 5, 4, 3, 2, 1>>, <<1, 2, 3, 4, 5, 7>>}

\* payloads that validation turns away: number out of 1..37, count 0, a combo of
\* five numbers, a combo holding 38
LdMalformed == {<<38, 1>>, <<1, 0>>}

JpMalformed == {<<1, 2, 3, 4, 5>>, <<1, 2, 3, 4, 5, 38>>}

\* a well-formed stake of 201 units: 201.00, more than an empty wallet may owe
LdOverdrawn == {<<3, 201>>}

\* what the aggregates of one announcement may return: the slot's collected
\* amount in cents and the stake units of each winning bid
EngineCollected == {1200, 100000}

EngineCounts == {<<>>, <<5>>, <<7>>, <<2, 3>>}

EnginePrizes == {1, 50000, 330000}

\* the scheduled announcer's LD table covers the numbers 1..MaxTable (1..37 in
\* slot.service.ts and part_015)
MaxTable == 7

\* units per LD number, 0 where nobody bid: one number with bids, two, all numbers
\* with one ahead, all numbers with distinct stakes, all but four
AutoUnits ==
    {[n \in 1..MaxTable |-> IF n = 3 THEN 2 ELSE 0],
     [n \in 1..MaxTable |-> IF n = 2 THEN 100 ELSE IF n = 5 THEN 1 ELSE 0],
     [n \in 1..MaxTable |-> IF n = 1 THEN 3 ELSE 1],
     [n \in 1..MaxTable |-> n],
     [n \in 1..MaxTable |-> IF n <= 4 THEN 0 ELSE n]}

\* the display map of a draw covers the numbers 1..MaxNumber (1..37 in part_007)
MaxNumber == 10

\* the combo k, k+1, .., k+5
Combo(k) == [i \in 1..6 |-> k + i - 1]

\* JP combos with their bid counts, in the order of their first bid
AutoCombos ==
    {<<[key |-> Combo(1), units |-> 2]>>,
     <<[key |-> Combo(2), units |-> 2], [key |-> Combo(1), units |-> 1]>>,
     [k \in 1..6 |-> [key |-> Combo(k), units |-> 1]],
     [k \in 1..6 |-> [key |-> Combo(k), units |-> IF k = 4 THEN 1 ELSE 2]]}

\* combos the random generator is let to produce: one that has bids, one that has none
RandomCombos == {Combo(1), Combo(9)}

\* outcomes of the Math.random() calls that build the display map: the base draw
\* of each number (0..2), the winner's boost (0..3; JP: 0..2 per winning number),
\* and 2..4 spikes, each a position draw (in quarters) and a boost (1..4)
CosmeticDraws ==
    {[base |-> [n \in 1..MaxNumber |-> 0], boost |-> 0, jpBoost |-> [i \in 1..6 |-> 0],
      spikes |-> <<[at |-> 0, boost |-> 1], [at |-> 0, boost |-> 1]>>],
     [base |-> [n \in 1..MaxNumber |-> 2], boost |-> 3, jpBoost |-> [i \in 1..6 |-> 2],
      spikes |-> [i \in 1..4 |-> [at |-> 3, boost |-> 4]]],
     [base |-> [n \in 1..MaxNumber |-> n % 3], boost |-> 1, jpBoost |-> [i \in 1..6 |-> i % 3],
      spikes |-> <<[at |-> 1, boost |-> 2], [at |-> 3, boost |-> 1], [at |-> 0, boost |-> 4]>>]}

\* settings rows the admin may have stored: prizes in cents, minProfitPct in hundredths
WinningPrizes == {1, 330000}

MinProfitPcts == {15, 100}

\* the values Math.random() is let to produce for the display unit value p
DisplayUnitValues == {20, 50}

----------------------------------------------------------------------------
(* Program constants *)

AgentNegativeBalanceLimt == 20000

NoWallet == [exists |-> FALSE, totalBalance |-> 0, reservedWinning |-> 0]

NewWallet == [exists |-> TRUE, totalBalance |-> 0, reservedWinning |-> 0]

BidPrizeLD == 100

BidPrizeJP == 500

CommissionPct == 10

LdBidLimitPerNumber == 120

\* windowCloseAt = slotTime - 15 minutes; one tick of the clock stands for 15 minutes
Lead == 1

NoOp == [op |-> "none", user |-> "none", amount |-> 0, tx |-> 0, result |-> "none"]

----------------------------------------------------------------------------
(* Wallet service: pure parts *)

computeAvailable(w) == w.totalBalance - w.reservedWinning

WalletTx(u, type, amount, balanceAfter, status, bid) ==
    [user |-> u, type |-> type, amount |-> amount,
     balanceAfter |-> balanceAfter, status |-> status, bid |-> bid]

Call(op, u, amount, result) ==
    [op |-> op, user |-> u, amount |-> amount, tx |-> 0, result |-> result]

\* a call of approveDeposit names a ledger row instead of a user and an amount
ApproveCall(id, approve, result) ==
    [op |-> IF approve THEN "approveDeposit" ELSE "declineDeposit",
     user |-> "none", amount |-> 0, tx |-> id, result |-> result]

\* a debitForBid that makes no negative-limit check
DebitUnchecked(w, amount) == TRUE

\* debitForBid: the negative-limit check
DebitAllowed(w, amount) ==
    ~ (computeAvailable(w) - amount < -AgentNegativeBalanceLimt)

\* a debitForBid that does not look for the wallet row
DebitResultAnyWallet(w, amount) ==
    IF amount <= 0 THEN "AmountMustBePositive"
    ELSE IF ~DebitAllowed(w, amount) THEN "NegativeLimitExceeded"
    ELSE "ok"

\* debitForBid: outcome of a call on wallet row w
DebitResult(w, amount) ==
    IF amount <= 0 THEN "AmountMustBePositive"
    ELSE IF ~w.exists THEN "WalletNotFound"
    ELSE IF ~DebitAllowed(w, amount) THEN "NegativeLimitExceeded"
    ELSE "ok"

\* a debitForBid that books the stake against the reservation column
DebitReserved(w, amount) ==
    [w EXCEPT !.reservedWinning = w.reservedWinning + amount]

DebitWallet(w, amount) ==
    [w EXCEPT !.totalBalance = w.totalBalance - amount]

\* creditWinning: outcome and new wallet row
CreditWinningResult(w, amount) ==
    IF amount <= 0 THEN "AmountMustBePositive"
    ELSE IF ~w.exists THEN "WalletNotFound"
    ELSE "ok"

\* a creditWinning that also pays the winning into the balance
CreditWinningPaid(w, amount) ==
    [w EXCEPT !.totalBalance = w.totalBalance + amount,
              !.reservedWinning = w.reservedWinning + amount]

CreditWinningWallet(w, amount) ==
    [w EXCEPT !.reservedWinning = w.reservedWinning + amount]

\* a settlement that does not compare the amount with the reservation
SettleToUserUnchecked(w, amount) ==
    IF amount <= 0 THEN "AmountMustBePositive"
    ELSE IF ~w.exists THEN "WalletNotFound"
    ELSE "ok"

\* winningSettlementToUser
SettleToUserResult(w, amount) ==
    IF amount <= 0 THEN "AmountMustBePositive"
    ELSE IF ~w.exists THEN "WalletNotFound"
    ELSE IF w.reservedWinning < amount THEN "ReservedWinningNotEnough"
    ELSE "ok"

\* a settlement that releases the reservation and leaves the balance
SettleToUserReleased(w, amount) ==
    [w EXCEPT !.reservedWinning = w.reservedWinning - amount]

SettleToUserWallet(w, amount) ==
    [w EXCEPT !.totalBalance = w.totalBalance - amount,
              !.reservedWinning = w.reservedWinning - amount]

\* a payout checked against totalBalance, reserved winnings included
PayOutAgainstTotal(w, amount) ==
    IF amount <= 0 THEN "AmountMustBePositive"
    ELSE IF ~w.exists THEN "WalletNotFound"
    ELSE IF amount > w.totalBalance THEN "InsufficientAvailable"
    ELSE "ok"

\* settleCommissionByAdmin and adminProcessWithdraw share the check
PayOutResult(w, amount) ==
    IF amount <= 0 THEN "AmountMustBePositive"
    ELSE IF ~w.exists THEN "WalletNotFound"
    ELSE IF amount > computeAvailable(w) THEN "InsufficientAvailable"
    ELSE "ok"

\* winningSettlementToAgent
SettleToAgentResult(w, amount) ==
    IF amount <= 0 THEN "AmountMustBePositive"
    ELSE IF ~w.exists THEN "WalletNotFound"
    ELSE "ok"

\* a credit that is recorded and never applied to the balance
CreditDropped(w, amount) == w

CreditWallet(w, amount) ==
    [w EXCEPT !.totalBalance = w.totalBalance + amount]

\* approveDeposit: the checks made on the ledger row before anything is written
ApproveResult(rows, id) ==
    IF id \notin DOMAIN rows THEN "TxNotFound"
    ELSE IF rows[id].type # "BID_CREDIT" THEN "NotADeposit"
    ELSE "ok"

----------------------------------------------------------------------------
(* Wallet service: one action per method, each call run to completion *)

Fail(call) ==
    /\ lastOp' = call
    /\ UNCHANGED <<wallet, ledger, nops, txn, calc, auto>>
    /\ UNCHANGED bidVars

Done(call) ==
    /\ lastOp' = call
    /\ nops' = nops + 1
    /\ UNCHANGED txn
    /\ UNCHANGED bidVars

requestBidDeposit(u, amount) ==
    /\ nops < MaxOps
    /\ IF amount <= 0
       THEN Fail(Call("requestBidDeposit", u, amount, "AmountMustBePositive"))
       ELSE LET w == IF wallet[u].exists THEN wallet[u] ELSE NewWallet
            IN /\ wallet' = [wallet EXCEPT ![u] = w]
               /\ ledger' = Append(ledger,
                     WalletTx(u, "BID_CREDIT", amount, w.totalBalance, "PENDING", 0))
               /\ Done(Call("requestBidDeposit", u, amount, "ok"))

approveDeposit(id, approve) ==
    /\ nops < MaxOps
    /\ LET r == ApproveResult(ledger, id)
       IN IF r # "ok"
          THEN Fail(ApproveCall(id, approve, r))
          ELSE LET pending == ledger[id]
                   u == pending.user
               IN IF ~approve
                  THEN /\ ledger' = [ledger EXCEPT ![id].status = "DECLINED"]
                       /\ UNCHANGED wallet
                       /\ Done(ApproveCall(id, approve, "ok"))
                  ELSE LET newTotal == CreditWallet(wallet[u], pending.amount).totalBalance
                       IN /\ wallet' = [wallet EXCEPT ![u].totalBalance = newTotal]
                          /\ ledger' = [ledger EXCEPT ![id].status = "APPROVED",
                                                      ![id].balanceAfter = newTotal]
                          /\ Done(ApproveCall(id, approve, "ok"))

\* a debitForBid that updates the wallet row before the negative-limit check
debitForBidWriteFirst(u, amount) ==
    /\ nops < MaxOps
    /\ LET r == DebitResult(wallet[u], amount)
           w == DebitWallet(wallet[u], amount)
       IN IF r = "NegativeLimitExceeded"
          THEN /\ wallet' = [wallet EXCEPT ![u] = w]
               /\ lastOp' = Call("debitForBid", u, amount, r)
               /\ UNCHANGED <<ledger, nops, txn, calc, auto>>
               /\ UNCHANGED bidVars
          ELSE IF r # "ok"
          THEN Fail(Call("debitForBid", u, amount, r))
          ELSE /\ wallet' = [wallet EXCEPT ![u] = w]
               /\ ledger' = Append(ledger,
                     WalletTx(u, "BID_DEBIT", -amount, w.totalBalance, "NONE", 0))
               /\ Done(Call("debitForBid", u, amount, "ok"))

debitForBid(u, amount) ==
    /\ nops < MaxOps
    /\ LET r == DebitResult(wallet[u], amount)
           w == DebitWallet(wallet[u], amount)
       IN IF r # "ok"
          THEN Fail(Call("debitForBid", u, amount, r))
          ELSE /\ wallet' = [wallet EXCEPT ![u] = w]
               /\ ledger' = Append(ledger,
                     WalletTx(u, "BID_DEBIT", -amount, w.totalBalance, "NONE", 0))
               /\ Done(Call("debitForBid", u, amount, "ok"))

creditCommission(u, amount) ==
    /\ nops < MaxOps
    /\ IF amount <= 0
       THEN Fail(Call("creditCommission", u, amount, "AmountMustBePositive"))
       ELSE LET w == CreditWallet(IF wallet[u].exists THEN wallet[u] ELSE NewWallet,
                                  amount)
            IN /\ wallet' = [wallet EXCEPT ![u] = w]
               /\ ledger' = Append(ledger,
                     WalletTx(u, "COMMISSION_CREDIT", amount, w.totalBalance, "NONE", 0))
               /\ Done(Call("creditCommission", u, amount, "ok"))

settleCommissionByAdmin(u, amount) ==
    /\ nops < MaxOps
    /\ LET r == PayOutResult(wallet[u], amount)
           w == DebitWallet(wallet[u], amount)
       IN IF r # "ok"
          THEN Fail(Call("settleCommissionByAdmin", u, amount, r))
          ELSE /\ wallet' = [wallet EXCEPT ![u] = w]
               /\ ledger' = Append(ledger,
                     WalletTx(u, "COMMISSION_SETTLEMENT", -amount, w.totalBalance, "NONE", 0))
               /\ Done(Call("settleCommissionByAdmin", u, amount, "ok"))

creditWinning(u, amount) ==
    /\ nops < MaxOps
    /\ LET r == CreditWinningResult(wallet[u], amount)
           w == CreditWinningWallet(wallet[u], amount)
       IN IF r # "ok"
          THEN Fail(Call("creditWinning", u, amount, r))
          ELSE /\ wallet' = [wallet EXCEPT ![u] = w]
               /\ ledger' = Append(ledger,
                     WalletTx(u, "WIN_CREDIT", amount, w.totalBalance, "NONE", 0))
               /\ Done(Call("creditWinning", u, amount, "ok"))

winningSettlementToAgent(u, amount) ==
    /\ nops < MaxOps
    /\ LET r == SettleToAgentResult(wallet[u], amount)
           w == CreditWallet(wallet[u], amount)
       IN IF r # "ok"
          THEN Fail(Call("winningSettlementToAgent", u, amount, r))
          ELSE /\ wallet' = [wallet EXCEPT ![u] = w]
               /\ ledger' = Append(ledger,
                     WalletTx(u, "WIN_SETTLEMENT_ADMIN_TO_AGENT", amount, w.totalBalance, "NONE", 0))
               /\ Done(Call("winningSettlementToAgent", u, amount, "ok"))

winningSettlementToUser(u, amount) ==
    /\ nops < MaxOps
    /\ LET r == SettleToUserResult(wallet[u], amount)
           w == SettleToUserWallet(wallet[u], amount)
       IN IF r # "ok"
          THEN Fail(Call("winningSettlementToUser", u, amount, r))
          ELSE /\ wallet' = [wallet EXCEPT ![u] = w]
               /\ ledger' = Append(ledger,
                     WalletTx(u, "WIN_SETTLEMENT_AGENT_TO_USER", -amount, w.totalBalance, "NONE", 0))
               /\ Done(Call("winningSettlementToUser", u, amount, "ok"))

adminProcessWithdraw(u, amount) ==
    /\ nops < MaxOps
    /\ LET r == PayOutResult(wallet[u], amount)
           w == DebitWallet(wallet[u], amount)
       IN IF r # "ok"
          THEN Fail(Call("adminProcessWithdraw", u, amount, r))
          ELSE /\ wallet' = [wallet EXCEPT ![u] = w]
               /\ ledger' = Append(ledger,
                     WalletTx(u, "WITHDRAW", -amount, w.totalBalance, "NONE", 0))
               /\ Done(Call("adminProcessWithdraw", u, amount, "ok"))

----------------------------------------------------------------------------
(* Wallet transactions that overlap.  Each method body is a $transaction    *)
(* callback that reads the wallet row with findUnique and later writes the  *)
(* values it computed from that read; the store runs it at its default      *)
(* isolation, so the read takes no lock and the write lands at commit.      *)

TxOps ==
    {"debitForBid", "creditCommission", "settleCommissionByAdmin", "creditWinning",
     "winningSettlementToAgent", "winningSettlementToUser", "adminProcessWithdraw"}

\* outcome of the checks a method makes on the row it read
OpResult(op, w, amount) ==
    CASE op = "debitForBid" -> DebitResult(w, amount)
      [] op = "creditCommission" ->
            IF amount <= 0 THEN "AmountMustBePositive" ELSE "ok"
      [] op = "creditWinning" -> CreditWinningResult(w, amount)
      [] op = "winningSettlementToAgent" -> SettleToAgentResult(w, amount)
      [] op = "winningSettlementToUser" -> SettleToUserResult(w, amount)
      [] OTHER -> PayOutResult(w, amount)

\* the row a method computes from the row it read
OpWallet(op, w, amount) ==
    CASE op = "debitForBid" -> DebitWallet(w, amount)
      [] op = "creditCommission" ->
            CreditWallet(IF w.exists THEN w ELSE NewWallet, amount)
      [] op = "creditWinning" -> CreditWinningWallet(w, amount)
      [] op = "winningSettlementToAgent" -> CreditWallet(w, amount)
      [] op = "winningSettlementToUser" -> SettleToUserWallet(w, amount)
      [] OTHER -> DebitWallet(w, amount)

\* wallet.update writes only the columns named in its data argument
WritesTotal(op) == op # "creditWinning"

WritesReserved(op) == op \in {"creditWinning", "winningSettlementToUser"}

TxType(op) ==
    CASE op = "debitForBid" -> "BID_DEBIT"
      [] op = "creditCommission" -> "COMMISSION_CREDIT"
      [] op = "settleCommissionByAdmin" -> "COMMISSION_SETTLEMENT"
      [] op = "creditWinning" -> "WIN_CREDIT"
      [] op = "winningSettlementToAgent" -> "WIN_SETTLEMENT_ADMIN_TO_AGENT"
      [] op = "winningSettlementToUser" -> "WIN_SETTLEMENT_AGENT_TO_USER"
      [] OTHER -> "WITHDRAW"

TxAmount(op, amount) ==
    IF op \in {"creditCommission", "creditWinning", "winningSettlementToAgent"}
    THEN amount ELSE -amount

NoTx == [pc |-> "idle", op |-> "none", user |-> "none", amount |-> 0, seen |-> NoWallet]

ConcIdle == \A p \in Procs : txn.procs[p].pc = "idle"

\* calls that complete before any two overlap
SetupCommission(u, amount) ==
    /\ ConcIdle
    /\ nops < MaxSetup
    /\ creditCommission(u, amount)

SetupWinning(u, amount) ==
    /\ ConcIdle
    /\ nops < MaxSetup
    /\ creditWinning(u, amount)

\* the callback starts: tx.wallet.findUnique and the checks on what it returned
TxBegin(p, op, u, amount) ==
    /\ txn.procs[p].pc = "idle"
    /\ LET seen == wallet[u]
           r == OpResult(op, seen, amount)
       IN txn' = [base |-> IF ConcIdle THEN wallet ELSE txn.base,
                  procs |-> [txn.procs EXCEPT ![p] =
                     [pc |-> IF r = "ok" THEN "read" ELSE "failed",
                      op |-> op, user |-> u, amount |-> amount, seen |-> seen]]]
    /\ UNCHANGED <<wallet, ledger, lastOp, nops, bidVars>>

\* the callback ends: tx.wallet.update, tx.walletTx.create and the commit
TxCommit(p) ==
    /\ txn.procs[p].pc = "read"
    /\ LET t == txn.procs[p]
           w == OpWallet(t.op, t.seen, t.amount)
           cur == IF wallet[t.user].exists THEN wallet[t.user] ELSE NewWallet
       IN IF ~t.seen.exists /\ wallet[t.user].exists
          THEN \* wallet.create meets the unique index on userId
               /\ txn' = [txn EXCEPT !.procs[p].pc = "failed"]
               /\ UNCHANGED <<wallet, ledger>>
          ELSE /\ wallet' = [wallet EXCEPT ![t.user] =
                    [exists |-> TRUE,
                     totalBalance |-> IF WritesTotal(t.op) THEN w.totalBalance
                                      ELSE cur.totalBalance,
                     reservedWinning |-> IF WritesReserved(t.op) THEN w.reservedWinning
                                         ELSE cur.reservedWinning]]
               /\ ledger' = Append(ledger,
                     WalletTx(t.user, TxType(t.op), TxAmount(t.op, t.amount),
                              w.totalBalance, "NONE", 0))
               /\ txn' = [txn EXCEPT !.procs[p].pc = "done"]
    /\ UNCHANGED <<lastOp, nops, bidVars>>

\* the same call made alone on wallet row w
RunAlone(op, w, amount) ==
    IF OpResult(op, w, amount) = "ok" THEN OpWallet(op, w, amount) ELSE w


----------------------------------------------------------------------------
(* Payout engine: pure parts *)

Max(a, b) == IF a >= b THEN a ELSE b

Min(a, b) == IF a <= b THEN a ELSE b

\* Math.ceil(a / b) for b > 0
CeilDiv(a, b) == -((-a) \div b)

\* Number((num / den).toFixed(2)) in cents, num in cents, num >= 0, den > 0:
\* toFixed rounds the decimal expansion of the double half up
Round2(num, den) == (2 * num + den) \div (2 * den)

RECURSIVE SumSeq(_)
SumSeq(xs) ==
    IF xs = <<>> THEN 0 ELSE Head(xs) + SumSeq(Tail(xs))

\* part_007 normalizePct: a stored 15 and a stored 0.15 both mean 15 percent
normalizePct(raw) ==
    IF raw > 100 THEN [num |-> raw, den |-> 10000] ELSE [num |-> raw, den |-> 100]

minProfitPct(c) ==
    IF c.rev = "uncapped" THEN normalizePct(c.minProfitPct)
    ELSE [num |-> c.minProfitPct, den |-> 100]

collected(rows, s) ==
    LET Keep(b) == b.slot = s
        Val(b) == b.amount
    IN SumSeq([i \in DOMAIN rows |-> IF Keep(rows[i]) THEN Val(rows[i]) ELSE 0])

\* a ceiling that keeps no profit back
maxAllowedPayoutGross(c, coll) == coll

maxAllowedPayout(c, coll) ==
    coll - Round2(coll * minProfitPct(c).num, minProfitPct(c).den)

SortedCombo(combo) == SortSeq(combo, LAMBDA x, y : x < y)

\* a bid wins when its number (LD) or its sorted combo (JP) is the selected one;
\* the selection is <<winningNumber>> for LD and the winning combo for JP
IsWinner(b, s, type, sel) ==
    /\ b.slot = s
    /\ IF type = "LD" THEN b.number = sel[1]
       ELSE Len(b.jpNumbers) = 6 /\ SortedCombo(b.jpNumbers) = SortedCombo(sel)

WinningBids(rows, s, type, sel) ==
    SelectSeq(rows, LAMBDA b : IsWinner(b, s, type, sel))

\* real units R: the sum of count over the LD winners, the number of JP winners
RealUnits(rows, s, type, sel) ==
    LET Keep(b) == IsWinner(b, s, type, sel)
        Val(b) == IF type = "LD" THEN b.count ELSE 1
    IN SumSeq([i \in DOMAIN rows |-> IF Keep(rows[i]) THEN Val(rows[i]) ELSE 0])

\* dummy units rounded down instead of up
DummyUnitsFloor(W, R, M) == Max(0, ((W * R) \div M) - R)

\* Math.max(0, Math.ceil((W * R) / M - R))
DummyUnits(W, R, M) == Max(0, CeilDiv(W * R, M) - R)

NoPayout ==
    [dummyUnits |-> 0, unitPrize |-> 0, payoutToReal |-> 0, scaled |-> TRUE,
     rawNum |-> 0, rawDen |-> 1]

\* part_007: the unit rate stays unrounded (rawNum / rawDen) for the later products
PayoutUncapped(W, R, M) ==
    IF M <= 0 THEN NoPayout
    ELSE LET D == DummyUnits(W, R, M)
         IN [dummyUnits |-> D, unitPrize |-> Round2(W, R + D),
             payoutToReal |-> Round2(W * R, R + D), scaled |-> FALSE,
             rawNum |-> W, rawDen |-> R + D]

\* bidding.service.ts: the rounded unit prize is what gets multiplied
PayoutCapped(W, R, M, type) ==
    IF M <= 0 THEN NoPayout
    ELSE LET D == DummyUnits(W, R, M)
         IN IF type = "LD" /\ R + D > LdBidLimitPerNumber
            THEN LET U == Round2(M, R)
                 IN [dummyUnits |-> 0, unitPrize |-> U, payoutToReal |-> U * R,
                     scaled |-> TRUE, rawNum |-> U, rawDen |-> 1]
            ELSE LET U == Round2(W, R + D)
                 IN [dummyUnits |-> D, unitPrize |-> U, payoutToReal |-> U * R,
                     scaled |-> FALSE, rawNum |-> U, rawDen |-> 1]

\* display-only dummy units held to the units-per-number limit in every revision
PayoutNoWinnerClamped(c, type, p) ==
    LET D == Min(CeilDiv(c.winningPrize, 100 * p), LdBidLimitPerNumber)
    IN [dummyUnits |-> D, unitPrize |-> Round2(c.winningPrize, D), payoutToReal |-> 0,
        scaled |-> FALSE, rawNum |-> 0, rawDen |-> 1]

\* no real winner: display-only dummy units for a random unit value p in 20..50
PayoutNoWinner(c, type, p) ==
    LET D0 == CeilDiv(c.winningPrize, 100 * p)
        D == IF c.rev = "capped" /\ type = "LD" THEN Min(D0, LdBidLimitPerNumber) ELSE D0
    IN [dummyUnits |-> D, unitPrize |-> Round2(c.winningPrize, D), payoutToReal |-> 0,
        scaled |-> FALSE, rawNum |-> 0, rawDen |-> 1]

Payout(c, type, R, M, p) ==
    IF R > 0
    THEN IF c.rev = "uncapped" THEN PayoutUncapped(c.winningPrize, R, M)
         ELSE PayoutCapped(c.winningPrize, R, M, type)
    ELSE PayoutNoWinner(c, type, p)

\* what one winning bid is credited
BidPayout(eng, b, type) ==
    Round2(eng.rawNum * (IF type = "LD" THEN b.count ELSE 1), eng.rawDen)

----------------------------------------------------------------------------
(* Slots and bids *)

Idle ==
    [pc |-> "idle", slot |-> "none", winner |-> <<>>, R |-> 0, M |-> 0, eng |-> NoPayout,
     queue |-> <<>>, failed |-> <<>>]

\* no engine run: the shape of calc before its inputs are drawn
NoCalc ==
    [pc |-> "none", cfg |-> [rev |-> "uncapped", winningPrize |-> 0, minProfitPct |-> 0],
     type |-> "LD", collected |-> 0, counts |-> <<>>, p |-> 20, draw |-> <<>>,
     R |-> 0, M |-> 0, eng |-> NoPayout, cosmetic |-> <<>>, credits |-> <<>>]

\* no run of the scheduled announcer
NoAuto ==
    [pc |-> "none", rev |-> "tied", type |-> "LD", W |-> 0, pct |-> 0, map |-> <<>>,
     cand |-> <<>>, best |-> [key |-> 0, realUnits |-> 0, payoutToReal |-> 0, profit |-> 0],
     queue |-> <<>>]

HasBids(s) == \E i \in DOMAIN bids : bids[i].slot = s

HasDraw(s) == \E d \in draws : d.slot = s

Tick ==
    /\ now < MaxTime
    /\ now' = now + 1
    /\ UNCHANGED <<walletVars, cfg, slot, bids, draws, ann, attempts, place, calc, auto>>

closeExpiredSlots ==
    /\ slot' = [s \in DOMAIN slot |->
                  IF slot[s].status = "OPEN" /\ slot[s].windowCloseAt <= now
                  THEN [slot[s] EXCEPT !.status = "CLOSED"] ELSE slot[s]]
    /\ UNCHANGED <<walletVars, cfg, now, bids, draws, ann, attempts, place, calc, auto>>

\* dto.slotTime and dto.status are optional: 0 and "none" stand for an absent field
updateSlot(s, slotTime, status) ==
    IF HasBids(s)
    THEN UNCHANGED vars
    ELSE /\ slot' = [slot EXCEPT
                ![s].windowCloseAt = IF slotTime = 0 THEN @ ELSE slotTime - Lead,
                ![s].status = IF status = "none" THEN @ ELSE status]
         /\ UNCHANGED <<walletVars, cfg, now, bids, draws, ann, attempts, place, calc, auto>>

BidRow(id, u, s, number, count, combo, amount) ==
    [id |-> id, user |-> u, slot |-> s, number |-> number, count |-> count,
     jpNumbers |-> combo, amount |-> amount]

CommissionAmount(amount) == Round2(amount * cfg.commissionPct, 100)

UnitsOnNumber(s, number) ==
    LET Keep(b) == b.slot = s /\ b.number = number
        Val(b) == b.count
    IN SumSeq([i \in DOMAIN bids |-> IF Keep(bids[i]) THEN Val(bids[i]) ELSE 0])

NotPlacing ==
    [pc |-> "idle", slot |-> "none", number |-> 0, count |-> 0, jpNumbers |-> <<>>,
     amount |-> 0]

\* createBid calls that passed validation and have not yet stored their Bid row
Placing == Cardinality({u \in Agents : place[u].pc # "idle"})

\* a validation that looks at the slot and not at the payload
BidRejectedBySlot(u, s, type, number, count, combo) ==
    IF slot[s].status # "OPEN" THEN "SlotNotOpen"
    ELSE IF now > slot[s].windowCloseAt THEN "WindowClosed"
    ELSE "ok"

\* createBid: why a call is turned away before the wallet is touched
BidRejected(u, s, type, number, count, combo) ==
    IF slot[s].status # "OPEN" THEN "SlotNotOpen"
    ELSE IF now > slot[s].windowCloseAt THEN "WindowClosed"
    ELSE IF type = "LD" /\ (number < 1 \/ number > 37) THEN "NumberOutOfRange"
    ELSE IF type = "LD" /\ count <= 0 THEN "CountNotPositive"
    ELSE IF /\ type = "LD"
            /\ cfg.rev = "capped"
            /\ UnitsOnNumber(s, number) + count > LdBidLimitPerNumber THEN "MaxUnits"
    ELSE IF type = "JP" /\ Len(combo) # 6 THEN "NotSixNumbers"
    ELSE IF type = "JP" /\ (\E i \in DOMAIN combo : combo[i] < 1 \/ combo[i] > 37)
         THEN "JpNumberOutOfRange"
    ELSE "ok"

\* createBid up to its first write: slot lookup, status and window checks, validation
createBid(u, s, number, count, combo) ==
    /\ place[u].pc = "idle"
    /\ Len(bids) + Placing < MaxBids
    /\ LET type == slot[s].type
           amount == IF type = "LD" THEN BidPrizeLD * count ELSE BidPrizeJP
           r == BidRejected(u, s, type, number, count, combo)
       IN IF r # "ok"
          THEN /\ lastOp' = Call("createBid", u, 0, r)
               /\ UNCHANGED <<wallet, ledger, nops, txn, bidVars>>
          ELSE /\ place' = [place EXCEPT ![u] =
                    [pc |-> "debit", slot |-> s,
                     number |-> IF type = "LD" THEN number ELSE 0,
                     count |-> IF type = "LD" THEN count ELSE 1,
                     jpNumbers |-> IF type = "LD" THEN <<>> ELSE combo,
                     amount |-> amount]]
               /\ UNCHANGED <<walletVars, cfg, now, slot, bids, draws, ann, attempts, calc, auto>>

\* createBid: await walletService.debitForBid
BidDebit(u) ==
    /\ place[u].pc = "debit"
    /\ LET amount == place[u].amount
           r == DebitResult(wallet[u], amount)
           w == DebitWallet(wallet[u], amount)
       IN IF r # "ok"
          THEN /\ place' = [place EXCEPT ![u] = NotPlacing]
               /\ lastOp' = Call("createBid", u, 0, r)
               /\ UNCHANGED <<wallet, ledger>>
          ELSE /\ wallet' = [wallet EXCEPT ![u] = w]
               /\ ledger' = Append(ledger,
                     WalletTx(u, "BID_DEBIT", -amount, w.totalBalance, "NONE", 0))
               /\ place' = [place EXCEPT ![u].pc = "commission"]
               /\ UNCHANGED lastOp
    /\ UNCHANGED <<nops, txn, cfg, now, slot, bids, draws, ann, attempts, calc, auto>>

\* createBid: await walletService.creditCommission
BidCommission(u) ==
    /\ place[u].pc = "commission"
    /\ LET c == CommissionAmount(place[u].amount)
           w == CreditWallet(wallet[u], c)
       IN IF c <= 0
          THEN /\ place' = [place EXCEPT ![u] = NotPlacing]
               /\ lastOp' = Call("createBid", u, 0, "AmountMustBePositive")
               /\ UNCHANGED <<wallet, ledger>>
          ELSE /\ wallet' = [wallet EXCEPT ![u] = w]
               /\ ledger' = Append(ledger,
                     WalletTx(u, "COMMISSION_CREDIT", c, w.totalBalance, "NONE", 0))
               /\ place' = [place EXCEPT ![u].pc = "insert"]
               /\ UNCHANGED lastOp
    /\ UNCHANGED <<nops, txn, cfg, now, slot, bids, draws, ann, attempts, calc, auto>>

\* createBid: await prisma.bid.create
BidInsert(u) ==
    /\ place[u].pc = "insert"
    /\ LET b == place[u]
       IN bids' = Append(bids,
             BidRow(Len(bids) + 1, u, b.slot, b.number, b.count, b.jpNumbers, b.amount))
    /\ place' = [place EXCEPT ![u] = NotPlacing]
    /\ lastOp' = Call("createBid", u, 0, "ok")
    /\ UNCHANGED <<wallet, ledger, nops, txn, cfg, now, slot, draws, ann, attempts, calc, auto>>

----------------------------------------------------------------------------
(* announceResult, one step per round trip to the store *)

Return(c, result) ==
    /\ ann' = [ann EXCEPT ![c] = Idle]
    /\ lastOp' = Call("announceResult", ann[c].slot, 0, result)

\* a guard that looks at the status alone and not at the clock
AnnounceRejectedByStatus(s) ==
    IF slot[s].status = "COMPLETED" THEN "AlreadyAnnounced" ELSE "ok"

\* the status guard of announceResult
AnnounceRejected(s) ==
    IF slot[s].status = "COMPLETED" THEN "AlreadyAnnounced"
    ELSE IF slot[s].status = "OPEN" /\ now < slot[s].windowCloseAt THEN "WindowNotClosed"
    ELSE "ok"

\* part_007 credits before it persists; bidding.service.ts persists first
CreditsFirst(c) == c.rev = "uncapped"

MustCredit(a) == a.R > 0 /\ a.eng.payoutToReal > 0

\* announceResult up to its first write: the status guard, the settings and the
\* aggregates it reads, and the payout computation
AnnounceBegin(c, s, sel, p) ==
    /\ ann[c].pc = "idle"
    /\ LET r == AnnounceRejected(s)
           type == slot[s].type
           R == RealUnits(bids, s, type, sel)
           M == maxAllowedPayout(cfg, collected(bids, s))
           a == [pc |-> "persist", slot |-> s, winner |-> sel, R |-> R, M |-> M,
                 eng |-> Payout(cfg, type, R, M, p), queue |-> <<>>, failed |-> <<>>]
       IN IF r # "ok"
          THEN /\ lastOp' = Call("announceResult", s, 0, r)
               /\ UNCHANGED ann
          ELSE /\ ann' = [ann EXCEPT ![c] =
                    IF CreditsFirst(cfg) /\ MustCredit(a)
                    THEN [a EXCEPT !.pc = "credit",
                                   !.queue = WinningBids(bids, s, type, sel)]
                    ELSE a]
               /\ UNCHANGED lastOp
    /\ UNCHANGED <<wallet, ledger, nops, txn, cfg, now, slot, bids, draws, place, calc>>

AnnounceStart(c, s, sel, p) ==
    /\ attempts < MaxAttempts
    /\ AnnounceBegin(c, s, sel, p)
    /\ attempts' = IF AnnounceRejected(s) # "ok" THEN attempts ELSE attempts + 1
    /\ UNCHANGED auto

\* one turn of the credit loop; fault: the store rejects the transaction
AnnounceCredit(c, fault) ==
    /\ ann[c].pc = "credit"
    /\ ann[c].queue # <<>>
    /\ LET a == ann[c]
           b == Head(a.queue)
           payout == BidPayout(a.eng, b, slot[a.slot].type)
           r == IF CreditsFirst(cfg) /\ payout <= 0 THEN "PayoutRoundedToZero"
                ELSE IF fault THEN "StoreError"
                ELSE CreditWinningResult(wallet[b.user], payout)
           w == CreditWinningWallet(wallet[b.user], payout)
           rest == Tail(a.queue)
           failed == IF r = "ok" THEN a.failed ELSE Append(a.failed, b.id)
       IN /\ IF r = "ok"
             THEN /\ wallet' = [wallet EXCEPT ![b.user] = w]
                  /\ ledger' = Append(ledger,
                        WalletTx(b.user, "WIN_CREDIT", payout, w.totalBalance, "NONE", b.id))
             ELSE UNCHANGED <<wallet, ledger>>
          /\ IF CreditsFirst(cfg)
             THEN IF rest # <<>>
                  THEN /\ ann' = [ann EXCEPT ![c].queue = rest, ![c].failed = failed]
                       /\ UNCHANGED lastOp
                  ELSE IF failed # <<>>
                  THEN Return(c, "CreditsFailed")
                  ELSE /\ ann' = [ann EXCEPT ![c].queue = rest, ![c].pc = "persist"]
                       /\ UNCHANGED lastOp
             ELSE IF r # "ok"
                  THEN Return(c, "CreditThrew")
                  ELSE IF rest # <<>>
                  THEN /\ ann' = [ann EXCEPT ![c].queue = rest]
                       /\ UNCHANGED lastOp
                  ELSE Return(c, "ok")
          /\ UNCHANGED <<nops, txn, cfg, now, slot, bids, draws, attempts, place, calc, auto>>

DrawRow(a) ==
    [slot |-> a.slot, winner |-> a.winner, dummyUnits |-> a.eng.dummyUnits,
     totalUnits |-> a.R + a.eng.dummyUnits, perUnitPayout |-> a.eng.unitPrize,
     payoutTotal |-> a.eng.payoutToReal, maxAllowedPayout |-> a.M]

\* persistDraw / saveDraw, first half: drawResult.create (slotId is unique)
AnnounceCreateDraw(c) ==
    /\ ann[c].pc = "persist"
    /\ IF HasDraw(ann[c].slot)
       THEN /\ Return(c, "DrawExists")
            /\ UNCHANGED draws
       ELSE /\ draws' = draws \cup {DrawRow(ann[c])}
            /\ ann' = [ann EXCEPT ![c].pc = "complete"]
            /\ UNCHANGED lastOp
    /\ UNCHANGED <<wallet, ledger, nops, txn, cfg, now, slot, bids, attempts, place, calc, auto>>

\* persistDraw / saveDraw, second half: slot.update to COMPLETED
AnnounceCompleteSlot(c) ==
    /\ ann[c].pc = "complete"
    /\ LET a == ann[c]
       IN /\ slot' = [slot EXCEPT ![a.slot].status = "COMPLETED"]
          /\ IF ~CreditsFirst(cfg) /\ MustCredit(a)
             THEN /\ ann' = [ann EXCEPT ![c].pc = "credit",
                      ![c].queue = WinningBids(bids, a.slot, slot[a.slot].type, a.winner)]
                  /\ UNCHANGED lastOp
             ELSE Return(c, "ok")
    /\ UNCHANGED <<wallet, ledger, nops, txn, cfg, now, bids, draws, attempts, place, calc, auto>>

OpenWallet(u) ==
    /\ ~wallet[u].exists
    /\ requestBidDeposit(u, 5000)

\* the winners an announceResult request is let to name
Selections(s) == IF slot[s].type = "LD" THEN {<<1>>} ELSE {<<1, 2, 3, 4, 5, 6>>}

\* the payloads a createBid request is let to carry for a slot of that type
BidChoices(s) ==
    IF slot[s].type = "LD"
    THEN {[number |-> x[1], count |-> x[2], jpNumbers |-> <<>>] :
             x \in LdStakes \cup LdMalformed \cup LdOverdrawn}
    ELSE [number : {0}, count : {1}, jpNumbers : JpCombos \cup JpMalformed]

InitAnnounce ==
    /\ wallet = [u \in Users |-> NoWallet]
    /\ ledger = <<>>
    /\ lastOp = NoOp
    /\ nops = 0
    /\ txn = <<>>
    /\ cfg \in [rev : {"uncapped", "capped"}, winningPrize : WinningPrizes,
                minProfitPct : MinProfitPcts, commissionPct : {CommissionPct}]
    /\ now = 0
    /\ slot \in [Slots -> [type : {"LD", "JP"}, status : {"OPEN"}, windowCloseAt : {1}]]
    /\ bids = <<>>
    /\ draws = {}
    /\ ann = [c \in Callers |-> Idle]
    /\ attempts = 0
    /\ place = [u \in Agents |-> NotPlacing]
    /\ calc = NoCalc
    /\ auto = NoAuto

NextAnnounce ==
    \/ \E u \in Agents : OpenWallet(u)
    \/ Tick
    \/ closeExpiredSlots
    \/ \E s \in Slots, t \in {0, 3}, st \in {"none", "OPEN", "CLOSED", "COMPLETED"} :
          updateSlot(s, t, st)
    \/ \E u \in Agents, s \in Slots : \E x \in BidChoices(s) :
          createBid(u, s, x.number, x.count, x.jpNumbers)
    \/ \E u \in Agents : BidDebit(u)
    \/ \E u \in Agents : BidCommission(u)
    \/ \E u \in Agents : BidInsert(u)
    \/ \E c \in Callers, s \in Slots, p \in DisplayUnitValues :
          \E sel \in Selections(s) : AnnounceStart(c, s, sel, p)
    \/ \E c \in Callers, fault \in BOOLEAN : AnnounceCredit(c, fault)
    \/ \E c \in Callers : AnnounceCreateDraw(c)
    \/ \E c \in Callers : AnnounceCompleteSlot(c)

SpecAnnounce == InitAnnounce /\ [][NextAnnounce]_vars

----------------------------------------------------------------------------
(* Two announceResult calls in flight for one slot: an admin request and the  *)
(* scheduler's call (SlotService.autoAnnounceResultsForClosedSlots hands its  *)
(* pick to announceResult as 'SYSTEM'). No store failures here.               *)

RaceCallers == {"admin", "SYSTEM"}

\* stakes on the number, and the combo, that both callers name as the winner
RaceChoices(s) ==
    IF slot[s].type = "LD"
    THEN {[number |-> 1, count |-> k, jpNumbers |-> <<>>] : k \in {1, 2}}
    ELSE {[number |-> 0, count |-> 1, jpNumbers |-> <<1, 2, 3, 4, 5, 6>>]}

InitRace ==
    /\ wallet = [u \in Users |-> NoWallet]
    /\ ledger = <<>>
    /\ lastOp = NoOp
    /\ nops = 0
    /\ txn = <<>>
    /\ cfg \in [rev : {"uncapped", "capped"}, winningPrize : {330000}, minProfitPct : {15},
                commissionPct : {CommissionPct}]
    /\ now = 0
    /\ slot \in [Slots -> [type : {"LD", "JP"}, status : {"OPEN"}, windowCloseAt : {1}]]
    /\ bids = <<>>
    /\ draws = {}
    /\ ann = [c \in RaceCallers |-> Idle]
    /\ attempts = 0
    /\ place = [u \in Agents |-> NotPlacing]
    /\ calc = NoCalc
    /\ auto = NoAuto

NextRace ==
    \/ \E u \in Agents : OpenWallet(u)
    \/ Tick
    \/ closeExpiredSlots
    \/ \E u \in Agents, s \in Slots : \E x \in RaceChoices(s) :
          createBid(u, s, x.number, x.count, x.jpNumbers)
    \/ \E u \in Agents : BidDebit(u)
    \/ \E u \in Agents : BidCommission(u)
    \/ \E u \in Agents : BidInsert(u)
    \/ \E c \in RaceCallers, s \in Slots, p \in DisplayUnitValues :
          \E sel \in Selections(s) : AnnounceStart(c, s, sel, p)
    \/ \E c \in RaceCallers : AnnounceCredit(c, FALSE)
    \/ \E c \in RaceCallers : AnnounceCreateDraw(c)
    \/ \E c \in RaceCallers : AnnounceCompleteSlot(c)

SpecRace == InitRace /\ [][NextRace]_vars

----------------------------------------------------------------------------
(* createBid on its own, the commission percentage being a setting: the       *)
(* migration's default, or the 0 that getSettings writes into a fresh row and *)
(* UpdateCommissionDto accepts                                                *)

\* the BID_DEBIT entries of an agent
BidDebits(u) ==
    Cardinality({i \in DOMAIN ledger : ledger[i].user = u /\ ledger[i].type = "BID_DEBIT"})

InitBid ==
    /\ wallet = [u \in Users |-> NoWallet]
    /\ ledger = <<>>
    /\ lastOp = NoOp
    /\ nops = 0
    /\ txn = <<>>
    /\ cfg \in [rev : {"uncapped", "capped"}, winningPrize : {330000}, minProfitPct : {15},
                commissionPct : {0, CommissionPct}]
    /\ now = 0
    /\ slot \in [Slots -> [type : {"LD", "JP"}, status : {"OPEN"}, windowCloseAt : {0, 1}]]
    /\ bids = <<>>
    /\ draws = {}
    /\ ann = [c \in Callers |-> Idle]
    /\ attempts = 0
    /\ place = [u \in Agents |-> NotPlacing]
    /\ calc = NoCalc
    /\ auto = NoAuto

NextBid ==
    \/ \E u \in Agents : OpenWallet(u)
    \/ Tick
    \/ closeExpiredSlots
    \/ \E u \in Agents, s \in Slots : \E x \in BidChoices(s) :
          /\ BidDebits(u) < MaxBids
          /\ createBid(u, s, x.number, x.count, x.jpNumbers)
    \/ \E u \in Agents : BidDebit(u)
    \/ \E u \in Agents : BidCommission(u)
    \/ \E u \in Agents : BidInsert(u)

SpecBid == InitBid /\ [][NextBid]_vars

----------------------------------------------------------------------------
(* Wallet ledger, calls made one after the other *)

Init ==
    /\ wallet = [u \in Users |-> NoWallet]
    /\ ledger = <<>>
    /\ lastOp = NoOp
    /\ nops = 0
    /\ txn = <<>>
    /\ cfg = [rev |-> "uncapped", winningPrize |-> 330000, minProfitPct |-> 15,
              commissionPct |-> CommissionPct]
    /\ now = 0
    /\ slot = [s \in Slots |-> [type |-> "LD", status |-> "OPEN", windowCloseAt |-> 1]]
    /\ bids = <<>>
    /\ draws = {}
    /\ ann = [c \in Callers |-> Idle]
    /\ attempts = 0
    /\ place = [u \in Agents |-> NotPlacing]
    /\ calc = NoCalc
    /\ auto = NoAuto

Next ==
    \/ \E u \in Users, a \in Amounts : requestBidDeposit(u, a)
    \/ \E id \in 1..(Len(ledger) + 1), approve \in BOOLEAN : approveDeposit(id, approve)
    \/ \E u \in Users, a \in Amounts : debitForBid(u, a)
    \/ \E u \in Users, a \in Amounts : creditCommission(u, a)
    \/ \E u \in Users, a \in Amounts : settleCommissionByAdmin(u, a)
    \/ \E u \in Users, a \in Amounts : creditWinning(u, a)
    \/ \E u \in Users, a \in Amounts : winningSettlementToAgent(u, a)
    \/ \E u \in Users, a \in Amounts : winningSettlementToUser(u, a)
    \/ \E u \in Users, a \in Amounts : adminProcessWithdraw(u, a)

Spec == Init /\ [][Next]_vars

----------------------------------------------------------------------------
(* The payout computation of announceResult on its own: the settings row and *)
(* the aggregates it reads are the inputs, the DrawResult figures and the    *)
(* amounts handed to creditWinning are what it computes.                     *)

\* stake units of the winning bids: a JP bid is one unit
WinnerCounts(type, counts) ==
    IF type = "LD" THEN counts ELSE [i \in DOMAIN counts |-> 1]

\* the amount the credit loop computes for each winning bid
EngineCredits(eng, type, counts) ==
    IF eng.payoutToReal > 0
    THEN [i \in DOMAIN counts |-> BidPayout(eng, [count |-> counts[i]], type)]
    ELSE <<>>

\* Math.round(real / 3)
Third(real) == (2 * real + 3) \div 6

RemoveAt(s, i) == SubSeq(s, 1, i - 1) \o SubSeq(s, i + 1, Len(s))

\* the spike loop: idx = Math.floor(Math.random() * candidates.length), the number
\* spliced out is raised to at least the reference number's units plus the boost
RECURSIVE Spikes(_, _, _, _)
Spikes(cosmetic, candidates, spikes, ref) ==
    IF spikes = <<>> THEN cosmetic
    ELSE LET idx == (Head(spikes).at * Len(candidates)) \div 4 + 1
             sp == candidates[idx]
         IN Spikes([cosmetic EXCEPT ![sp] = Max(cosmetic[sp], cosmetic[ref] + Head(spikes).boost)],
                   RemoveAt(candidates, idx), Tail(spikes), ref)

buildCosmeticUnitsForLd(realUnitsMap, winningNumber, realDummyForWinner, d) ==
    LET base == [n \in DOMAIN realUnitsMap |-> Max(0, d.base[n] + Third(realUnitsMap[n]))]
        won == [base EXCEPT ![winningNumber] =
                   realUnitsMap[winningNumber] + realDummyForWinner + d.boost]
        Other(n) == n # winningNumber
    IN Spikes(won, SelectSeq([n \in DOMAIN realUnitsMap |-> n], Other), d.spikes, winningNumber)

\* the JP display map: every number of the winning combo gets a sixth of the
\* dummy units and a draw on top of its base
CosmeticUnitsJP(realCounts, winningCombo, dummyUnits, d) ==
    LET base == [n \in DOMAIN realCounts |-> d.base[n] + Third(realCounts[n])]
        won == [n \in DOMAIN realCounts |->
                   IF \E i \in DOMAIN winningCombo : winningCombo[i] = n
                   THEN LET i == CHOOSE k \in DOMAIN winningCombo : winningCombo[k] = n
                        IN base[n] + CeilDiv(dummyUnits, 6) + d.jpBoost[i]
                   ELSE base[n]]
        Other(n) == \A i \in DOMAIN winningCombo : winningCombo[i] # n
    IN Spikes(won, SelectSeq([n \in DOMAIN realCounts |-> n], Other), d.spikes, winningCombo[1])

\* realUnitsMap: the winning number 1 has the R winning units, the units of the
\* other bids lie evenly on the numbers 2..MaxNumber
EngineRealUnits(c, R) ==
    LET rest == c.collected \div BidPrizeLD - R
        others == MaxNumber - 1
    IN [n \in 1..MaxNumber |->
           IF n = 1 THEN R
           ELSE rest \div others + (IF n - 1 <= rest % others THEN 1 ELSE 0)]

\* realCounts: the R winning bids are on the combo 1..6, the other bids on the
\* combo of the six highest numbers
EngineRealCounts(c, R) ==
    LET rest == c.collected \div BidPrizeJP - R
    IN [n \in 1..MaxNumber |->
           (IF n <= 6 THEN R ELSE 0) + (IF n >= MaxNumber - 5 THEN rest ELSE 0)]

\* cosmeticUnits of the draw meta; bidding.service.ts builds none
EngineCosmetic(c, R, eng) ==
    IF c.cfg.rev = "capped" THEN <<>>
    ELSE IF c.type = "LD"
    THEN buildCosmeticUnitsForLd(EngineRealUnits(c, R), 1, eng.dummyUnits, c.draw)
    ELSE CosmeticUnitsJP(EngineRealCounts(c, R), Combo(1), eng.dummyUnits, c.draw)

\* amounts taken from the displayed units of the winning number
RunCreditsFromDisplay(run) ==
    IF run.eng.payoutToReal > 0 /\ run.cosmetic # <<>>
    THEN [i \in DOMAIN run.counts |->
             Round2(run.cfg.winningPrize * WinnerCounts(run.type, run.counts)[i], run.cosmetic[1])]
    ELSE <<>>

\* the amounts of the credit loop of a run
RunCredits(run) ==
    EngineCredits(run.eng, run.type, WinnerCounts(run.type, run.counts))

\* one run of the computation on the inputs and random draws of c
EngineResult(c) ==
    LET R == SumSeq(WinnerCounts(c.type, c.counts))
        M == maxAllowedPayout(c.cfg, c.collected)
        eng == Payout(c.cfg, c.type, R, M, c.p)
        run == [c EXCEPT !.pc = "done", !.R = R, !.M = M, !.eng = eng,
                         !.cosmetic = EngineCosmetic(c, R, eng)]
    IN [run EXCEPT !.credits = RunCredits(run)]

EngineInputs ==
    {c \in [pc : {"input"},
            cfg : [rev : {"uncapped", "capped"}, winningPrize : EnginePrizes,
                   minProfitPct : MinProfitPcts],
            type : {"LD", "JP"}, collected : EngineCollected, counts : EngineCounts,
            p : DisplayUnitValues, draw : CosmeticDraws,
            R : {0}, M : {0}, eng : {NoPayout}, cosmetic : {<<>>}, credits : {<<>>}] :
        \* the winning bids are among the bids that were collected
        c.collected >= (IF c.type = "LD" THEN BidPrizeLD ELSE BidPrizeJP)
                          * SumSeq(WinnerCounts(c.type, c.counts))}

EngineRun ==
    /\ calc.pc = "input"
    /\ calc' = EngineResult(calc)
    /\ UNCHANGED <<walletVars, cfg, now, slot, bids, draws, ann, attempts, place, auto>>

InitEngine ==
    /\ wallet = [u \in Users |-> NoWallet]
    /\ ledger = <<>>
    /\ lastOp = NoOp
    /\ nops = 0
    /\ txn = <<>>
    /\ cfg = [rev |-> "uncapped", winningPrize |-> 330000, minProfitPct |-> 15,
              commissionPct |-> CommissionPct]
    /\ now = 0
    /\ slot = [s \in Slots |-> [type |-> "LD", status |-> "OPEN", windowCloseAt |-> 1]]
    /\ bids = <<>>
    /\ draws = {}
    /\ ann = [c \in Callers |-> Idle]
    /\ attempts = 0
    /\ place = [u \in Agents |-> NotPlacing]
    /\ calc \in EngineInputs
    /\ auto = NoAuto

NextEngine == EngineRun

SpecEngine == InitEngine /\ [][NextEngine]_vars

----------------------------------------------------------------------------
(* The scheduled announcer: SlotService.autoAnnounceLD / autoAnnounceJP pick   *)
(* the winner of a closed slot from its bid table and hand it to               *)
(* announceResult. rev "tied" is part_015, rev "least" is slot.service.ts.     *)

MaxCandidates == 5

Range(f) == {f[i] : i \in DOMAIN f}

\* the unitsMap of autoAnnounceLD in insertion order: the groupBy rows (in the
\* order the store returns them, ascending or descending here), then every
\* number without bids with 0 units
LdUnitsMap(units, desc) ==
    LET N == Len(units)
        Asc == [n \in 1..N |-> [key |-> n, units |-> units[n]]]
        Desc == [n \in 1..N |-> [key |-> N + 1 - n, units |-> units[N + 1 - n]]]
        Bid(e) == e.units > 0
        Unbid(e) == e.units = 0
    IN SelectSeq(IF desc THEN Desc ELSE Asc, Bid) \o SelectSeq(Asc, Unbid)

Pos(map, e) == CHOOSE i \in DOMAIN map : map[i] = e

\* Array.prototype.sort((a, b) => a.units - b.units): stable
SortByUnits(map) ==
    SortSeq(map, LAMBDA a, b : a.units < b.units
                               \/ (a.units = b.units /\ Pos(map, a) < Pos(map, b)))

\* slot.service.ts autoAnnounceLD: by units, then by number
SortByUnitsThenNumber(map) ==
    SortSeq(map, LAMBDA a, b : a.units < b.units \/ (a.units = b.units /\ a.key < b.key))

\* the entries tied at the fewest units
Tied(map) ==
    LET sorted == SortByUnits(map)
        IsMin(e) == e.units = sorted[1].units
    IN SelectSeq(sorted, IsMin)

\* sort(() => Math.random() - 0.5).slice(0, 5): any MaxCandidates of them in any order
Shuffled(tied) ==
    {c \in [1..MaxCandidates -> Range(tied)] : \A i, j \in 1..MaxCandidates : c[i] = c[j] => i = j}

TiedCandidates(map) ==
    IF Len(Tied(map)) > MaxCandidates THEN Shuffled(Tied(map)) ELSE {Tied(map)}

\* candidateCombos padded to MaxCandidates with random combos of count 0
Filled(cand) ==
    {cand \o f : f \in [1..(MaxCandidates - Len(cand)) ->
                           {[key |-> k, units |-> 0] : k \in RandomCombos}]}

CandidatesLD(rev, map) ==
    IF rev = "tied" THEN TiedCandidates(map)
    ELSE {SubSeq(SortByUnitsThenNumber(map), 1, Min(MaxCandidates, Len(map)))}

CandidatesJP(rev, map) ==
    IF map = <<>> THEN Filled(<<>>)
    ELSE IF rev = "tied" THEN TiedCandidates(map)
    ELSE Filled(SubSeq(SortByUnits(map), 1, Min(MaxCandidates, Len(map))))

\* aggCollected._sum.amount: every unit was paid the bid price
AutoCollected(type, map) ==
    (IF type = "LD" THEN BidPrizeLD ELSE BidPrizeJP) * SumSeq([i \in DOMAIN map |-> map[i].units])

\* M = Number((C - C * minProfitPct).toFixed(2)), the setting taken as a fraction
AutoMaxAllowedPayout(pct, C) == C - Round2(C * pct, 100)

\* one entry of evaluations / evals; the dummy units and the unit prize of the
\* candidate are only logged
Evaluate(e, type, W, M, C) ==
    LET payoutToReal == IF e.units > 0 THEN PayoutCapped(W, e.units, M, type).payoutToReal ELSE 0
    IN [key |-> e.key, realUnits |-> e.units, payoutToReal |-> payoutToReal,
        profit |-> C - payoutToReal]

\* evaluations.sort((a, b) => b.profit - a.profit || a.realUnits - b.realUnits)[0]
Best(evals) ==
    LET Before(a, b) == a.profit > b.profit \/ (a.profit = b.profit /\ a.realUnits < b.realUnits)
        Top == {i \in DOMAIN evals : \A j \in DOMAIN evals : ~Before(evals[j], evals[i])}
    IN evals[CHOOSE i \in Top : \A j \in Top : i <= j]

AutoPick(cand) ==
    LET C == AutoCollected(auto.type, auto.map)
        M == AutoMaxAllowedPayout(auto.pct, C)
    IN auto' = [auto EXCEPT !.pc = "done", !.cand = cand,
                   !.best = Best([i \in DOMAIN cand |-> Evaluate(cand[i], auto.type, auto.W, M, C)])]

autoAnnounceLD ==
    /\ auto.pc = "input"
    /\ auto.type = "LD"
    /\ \E cand \in CandidatesLD(auto.rev, auto.map) : AutoPick(cand)
    /\ UNCHANGED <<walletVars, cfg, now, slot, bids, draws, ann, attempts, place, calc>>

autoAnnounceJP ==
    /\ auto.pc = "input"
    /\ auto.type = "JP"
    /\ \E cand \in CandidatesJP(auto.rev, auto.map) : AutoPick(cand)
    /\ UNCHANGED <<walletVars, cfg, now, slot, bids, draws, ann, attempts, place, calc>>

AutoInputs ==
    {[pc |-> "input", rev |-> rev, type |-> "LD", W |-> W, pct |-> pct,
      map |-> LdUnitsMap(units, desc), cand |-> <<>>, best |-> NoAuto.best, queue |-> <<>>] :
        rev \in {"tied", "least"}, W \in WinningPrizes, pct \in MinProfitPcts,
        units \in AutoUnits, desc \in BOOLEAN}
    \cup
    {[pc |-> "input", rev |-> rev, type |-> "JP", W |-> W, pct |-> pct,
      map |-> map, cand |-> <<>>, best |-> NoAuto.best, queue |-> <<>>] :
        rev \in {"tied", "least"}, W \in WinningPrizes, pct \in MinProfitPcts,
        map \in AutoCombos \cup {<<>>}}

InitAuto ==
    /\ wallet = [u \in Users |-> NoWallet]
    /\ ledger = <<>>
    /\ lastOp = NoOp
    /\ nops = 0
    /\ txn = <<>>
    /\ cfg = [rev |-> "uncapped", winningPrize |-> 330000, minProfitPct |-> 15,
              commissionPct |-> CommissionPct]
    /\ now = 0
    /\ slot = [s \in Slots |-> [type |-> "LD", status |-> "OPEN", windowCloseAt |-> 1]]
    /\ bids = <<>>
    /\ draws = {}
    /\ ann = [c \in Callers |-> Idle]
    /\ attempts = 0
    /\ place = [u \in Agents |-> NotPlacing]
    /\ calc = NoCalc
    /\ auto \in AutoInputs

NextAuto ==
    \/ autoAnnounceLD
    \/ autoAnnounceJP

SpecAuto == InitAuto /\ [][NextAuto]_vars

----------------------------------------------------------------------------
(* The cron jobs of SlotCronService on their own: closeExpiredSlots and        *)
(* autoAnnounceResultsForClosedSlots, which walks the closed slots and hands   *)
(* each pick to announceResult as 'SYSTEM'. Bidding is over: the bids of the   *)
(* slots are the inputs. auto.queue is the closedSlots list still to handle.   *)

CronSlots == {"s1", "s2"}

slotTime(s) == slot[s].windowCloseAt + Lead

\* the stakes an agent placed on a slot of that type before its window closed
CronStakes(type) ==
    IF type = "LD"
    THEN {[i \in 1..3 |-> [number |-> i, count |-> 1, jpNumbers |-> <<>>]],
          [i \in 1..4 |-> [number |-> i, count |-> IF i = 1 THEN 2 ELSE 1, jpNumbers |-> <<>>]]}
    ELSE {<<>>,
          <<[number |-> 0, count |-> 1, jpNumbers |-> Combo(1)]>>,
          [i \in 1..3 |-> [number |-> 0, count |-> 1, jpNumbers |-> Combo(1)]]}

\* wallet, ledger and bids after one more createBid of agent u went through:
\* debitForBid, creditCommission, bid.create
Placed(st, u, s, x) ==
    LET amount == IF x.jpNumbers = <<>> THEN BidPrizeLD * x.count ELSE BidPrizeJP
        w1 == DebitWallet(st.wallet[u], amount)
        c == CommissionAmount(amount)
        w2 == CreditWallet(w1, c)
    IN [wallet |-> [st.wallet EXCEPT ![u] = w2],
        ledger |-> st.ledger \o
                     <<WalletTx(u, "BID_DEBIT", -amount, w1.totalBalance, "NONE", 0),
                       WalletTx(u, "COMMISSION_CREDIT", c, w2.totalBalance, "NONE", 0)>>,
        bids |-> Append(st.bids, BidRow(Len(st.bids) + 1, u, s, x.number, x.count,
                                        x.jpNumbers, amount))]

RECURSIVE PlacedAll(_, _, _, _)
PlacedAll(st, u, s, xs) ==
    IF xs = <<>> THEN st ELSE PlacedAll(Placed(st, u, s, Head(xs)), u, s, Tail(xs))

\* agent u1 asked for a deposit (which opened the wallet) and placed the stakes
CronStart(stakes) ==
    LET st0 == [wallet |-> [u \in Users |-> IF u = "u1" THEN NewWallet ELSE NoWallet],
                ledger |-> <<WalletTx("u1", "BID_CREDIT", 5000, 0, "PENDING", 0)>>,
                bids |-> <<>>]
    IN PlacedAll(PlacedAll(st0, "u1", "s1", stakes["s1"]), "u1", "s2", stakes["s2"])

\* units per number of autoAnnounceLD, from the Bid rows of the slot
SlotUnits(s) == [n \in 1..MaxTable |-> UnitsOnNumber(s, n)]

\* comboMap of autoAnnounceJP: bids per normalised combo, in insertion order
RECURSIVE ComboMap(_, _, _)
ComboMap(rows, s, map) ==
    IF rows = <<>> THEN map
    ELSE LET b == Head(rows)
             k == SortedCombo(b.jpNumbers)
         IN IF b.slot # s \/ Len(b.jpNumbers) # 6 THEN ComboMap(Tail(rows), s, map)
            ELSE IF \E i \in DOMAIN map : map[i].key = k
            THEN ComboMap(Tail(rows), s,
                    [i \in DOMAIN map |->
                        IF map[i].key = k THEN [map[i] EXCEPT !.units = @ + 1] ELSE map[i]])
            ELSE ComboMap(Tail(rows), s, Append(map, [key |-> k, units |-> 1]))

\* what autoAnnounceLD / autoAnnounceJP read for slot s: the table of the bids
\* (LD: in either order of the groupBy rows), the collected amount C, the
\* ceiling M, and the candidate lists the random choices allow
CronTables(s) ==
    LET type == slot[s].type
        maps == IF type = "LD"
                THEN {LdUnitsMap(SlotUnits(s), desc) : desc \in BOOLEAN}
                ELSE {ComboMap(bids, s, <<>>)}
    IN {[C |-> AutoCollected(type, map),
         M |-> AutoMaxAllowedPayout(cfg.minProfitPct, AutoCollected(type, map)),
         cands |-> IF type = "LD" THEN CandidatesLD(auto.rev, map)
                   ELSE CandidatesJP(auto.rev, map)] : map \in maps}

\* the evaluations of the candidates, one list per way the choices can fall
CronEvaluations(s) ==
    UNION {{[i \in DOMAIN cand |->
                Evaluate(cand[i], slot[s].type, cfg.winningPrize, t.M, t.C)] : cand \in t.cands} :
           t \in CronTables(s)}

\* autoAnnounceResultsForClosedSlots: findMany of the closed slots whose draw
\* time has come, ordered by slotTime
CronBegin ==
    /\ auto.pc = "cron"
    /\ auto.queue = <<>>
    /\ ann["SYSTEM"].pc = "idle"
    /\ LET Due == {s \in DOMAIN slot : slot[s].status = "CLOSED" /\ slotTime(s) <= now}
       IN /\ Due # {}
          /\ \E q \in [1..Cardinality(Due) -> Due] :
                /\ \A i, j \in DOMAIN q :
                      i < j => q[i] # q[j] /\ slotTime(q[i]) <= slotTime(q[j])
                /\ auto' = [auto EXCEPT !.queue = q]
    /\ UNCHANGED <<walletVars, cfg, now, slot, bids, draws, ann, attempts, place, calc>>

\* one turn of its loop, first half: a slot that has a DrawResult is skipped;
\* for another autoAnnounceLD / autoAnnounceJP reads the bids and the settings
\* and picks the winner (auto.cand) from its projection (auto.best)
CronPick ==
    /\ auto.pc = "cron"
    /\ auto.queue # <<>>
    /\ auto.cand = <<>>
    /\ ann["SYSTEM"].pc = "idle"
    /\ LET s == Head(auto.queue)
       IN IF HasDraw(s)
          THEN auto' = [auto EXCEPT !.queue = Tail(auto.queue)]
          ELSE \E b \in {Best(evals) : evals \in CronEvaluations(s)} :
                  auto' = [auto EXCEPT !.best = b,
                                       !.cand = IF slot[s].type = "LD" THEN <<b.key>> ELSE b.key]
    /\ UNCHANGED <<walletVars, cfg, now, slot, bids, draws, ann, attempts, place, calc>>

\* second half: announceResult(SYSTEM, slot, winner); an error is logged and the
\* loop goes on with the next slot
CronNext ==
    /\ auto.pc = "cron"
    /\ auto.queue # <<>>
    /\ auto.cand # <<>>
    /\ ann["SYSTEM"].pc = "idle"
    /\ auto' = [auto EXCEPT !.queue = Tail(auto.queue), !.cand = <<>>, !.best = NoAuto.best]
    /\ \E p \in DisplayUnitValues : AnnounceBegin("SYSTEM", Head(auto.queue), auto.cand, p)
    /\ UNCHANGED attempts

InitCron ==
    /\ cfg \in [rev : {"uncapped", "capped"}, winningPrize : WinningPrizes,
                minProfitPct : {15}, commissionPct : {CommissionPct}]
    /\ slot \in [CronSlots -> [type : {"LD", "JP"}, status : {"OPEN"}, windowCloseAt : {0}]]
    /\ \E stakes \in [CronSlots -> CronStakes("LD") \cup CronStakes("JP")] :
          /\ \A s \in CronSlots : stakes[s] \in CronStakes(slot[s].type)
          /\ wallet = CronStart(stakes).wallet
          /\ ledger = CronStart(stakes).ledger
          /\ bids = CronStart(stakes).bids
    /\ lastOp = NoOp
    /\ nops = 0
    /\ txn = <<>>
    /\ now = 0
    /\ draws = {}
    /\ ann = [c \in {"SYSTEM"} |-> Idle]
    /\ attempts = 0
    /\ place = [u \in Agents |-> NotPlacing]
    /\ calc = NoCalc
    /\ auto \in {[NoAuto EXCEPT !.pc = "cron", !.rev = r] : r \in {"tied", "least"}}

NextCron ==
    \/ Tick
    \/ closeExpiredSlots
    \/ CronBegin
    \/ CronPick
    \/ CronNext
    \/ AnnounceCredit("SYSTEM", FALSE)
    \/ AnnounceCreateDraw("SYSTEM")
    \/ AnnounceCompleteSlot("SYSTEM")

\* the scheduler fires each job every minute, the clock advances, and an awaited
\* store call returns
CronFairness ==
    /\ WF_vars(Tick)
    /\ WF_vars(closeExpiredSlots)
    /\ WF_vars(CronBegin)
    /\ WF_vars(CronPick)
    /\ WF_vars(CronNext)
    /\ WF_vars(AnnounceCredit("SYSTEM", FALSE))
    /\ WF_vars(AnnounceCreateDraw("SYSTEM"))
    /\ WF_vars(AnnounceCompleteSlot("SYSTEM"))

SpecCron == InitCron /\ [][NextCron]_vars /\ CronFairness

----------------------------------------------------------------------------
(* Properties *)

WinCredited(u) ==
    LET Keep(t) == t.user = u /\ t.type = "WIN_CREDIT"
        Val(t) == t.amount
    IN SumSeq([i \in DOMAIN ledger |-> IF Keep(ledger[i]) THEN Val(ledger[i]) ELSE 0])

Booked(u) ==
    LET Keep(t) == t.user = u /\ t.status # "PENDING"
        Val(t) == t.amount
    IN SumSeq([i \in DOMAIN ledger |-> IF Keep(ledger[i]) THEN Val(ledger[i]) ELSE 0])

C2_LedgerReconciles ==
    \A u \in Users : wallet[u].exists => Booked(u) = wallet[u].totalBalance

\* C7: debitForBid with amount > 0 on an existing wallet succeeds exactly when
\* available - amount >= -negativeLimit; on success totalBalance drops by amount,
\* reservedWinning and the other wallets stay, and one BID_DEBIT entry of -amount is
\* appended; a refused call changes neither wallet nor ledger.
C7_DebitContract ==
    [][ (lastOp'.op = "debitForBid" /\ lastOp'.amount > 0 /\ wallet[lastOp'.user].exists)
        => LET u == lastOp'.user
               a == lastOp'.amount
               w == wallet[u]
           IN /\ (lastOp'.result = "ok")
                    <=> (computeAvailable(w) - a >= -AgentNegativeBalanceLimt)
              /\ lastOp'.result = "ok" =>
                    /\ wallet'[u].totalBalance = w.totalBalance - a
                    /\ wallet'[u].reservedWinning = w.reservedWinning
                    /\ \A v \in Users \ {u} : wallet'[v] = wallet[v]
                    /\ Len(ledger') = Len(ledger) + 1
                    /\ SubSeq(ledger', 1, Len(ledger)) = ledger
                    /\ ledger'[Len(ledger')].type = "BID_DEBIT"
                    /\ ledger'[Len(ledger')].user = u
                    /\ ledger'[Len(ledger')].amount = -a
              /\ lastOp'.result # "ok" => (wallet' = wallet /\ ledger' = ledger)
      ]_vars

\* the example of C7: 50.00 debited from an empty wallet, then 200.00 refused
C7_Witness ==
    /\ lastOp.op = "debitForBid"
    /\ lastOp.amount = 20000
    /\ lastOp.result = "NegativeLimitExceeded"
    /\ wallet[lastOp.user].totalBalance = -5000
    /\ wallet[lastOp.user].reservedWinning = 0
    /\ \E i \in DOMAIN ledger :
          /\ ledger[i].type = "BID_DEBIT"
          /\ ledger[i].user = lastOp.user
          /\ ledger[i].amount = -5000

\* C9: approveDeposit with approve = true on a row that is already APPROVED or
\* DECLINED adds nothing to the wallet.
C9_ApproveOnce ==
    [][ ( /\ lastOp'.op = "approveDeposit"
          /\ lastOp'.result = "ok"
          /\ nops' = nops + 1
          /\ ledger[lastOp'.tx].status # "PENDING" )
        => wallet' = wallet ]_vars

WinCredits(id) ==
    Cardinality({i \in DOMAIN ledger : ledger[i].type = "WIN_CREDIT" /\ ledger[i].bid = id})

Winners(a) == WinningBids(bids, a.slot, slot[a.slot].type, a.winner)

CreditedTo(a) ==
    LET w == Winners(a)
    IN SumSeq([i \in DOMAIN w |-> BidPayout(a.eng, w[i], slot[a.slot].type)])

\* C3: an announceResult with R > 0 real winning units and ceiling M > 0 records a
\* payoutToReal, and hands its winners amounts whose sum is, at most M plus one
\* cent per winner.
C3_PayoutWithinCeiling ==
    [][ \A c \in Callers :
          LET a == ann'[c]
          IN (ann[c].pc = "idle" /\ a.pc # "idle" /\ a.R > 0 /\ a.M > 0)
             => /\ a.eng.payoutToReal <= a.M + Len(Winners(a))
                /\ CreditedTo(a) <= a.M + Len(Winners(a))
      ]_vars

\* C4: when announceResult returns after a credit of a winning bid failed, the slot
\* has no DrawResult and is not COMPLETED.
C4_FailedCreditLeavesNoDraw ==
    ( /\ lastOp.op = "announceResult"
      /\ lastOp.result \in {"CreditsFailed", "CreditThrew"}
      /\ \A c \in Callers : ann[c].pc = "idle" )
    => (~HasDraw(lastOp.user) /\ slot[lastOp.user].status # "COMPLETED")

\* C5: after any sequence of announceResult calls a slot has at most one DrawResult
\* and no winning bid has been credited twice.
C5_AnnouncedOnce ==
    /\ \A d1, d2 \in draws : d1.slot = d2.slot => d1 = d2
    /\ \A i \in DOMAIN bids : WinCredits(bids[i].id) <= 1

\* C6: whenever a DrawResult with payoutTotal > 0 exists for a slot, every real
\* winning bid of the slot has a WIN_CREDIT entry.
C6_CreditsBeforeResult ==
    \A d \in draws :
        d.payoutTotal > 0 =>
            LET w == WinningBids(bids, d.slot, slot[d.slot].type, d.winner)
            IN \A i \in DOMAIN w : WinCredits(w[i].id) >= 1

\* C8: once two overlapping wallet transactions have both ended, every wallet row
\* that existed when they began is what running the two calls one after the other,
\* in one of the two orders, leaves.
C8_Serializable ==
    (\A p \in Procs : txn.procs[p].pc \in {"done", "failed"})
    => \A u \in Agents :
         txn.base[u].exists =>
         LET Ran(p, w) == IF txn.procs[p].user = u
                          THEN RunAlone(txn.procs[p].op, w, txn.procs[p].amount)
                          ELSE w
         IN \E p, q \in Procs :
               /\ p # q
               /\ wallet[u] = Ran(q, Ran(p, txn.base[u]))

\* C10: a slot's status changes only from OPEN to CLOSED or from CLOSED to COMPLETED.
C10_StatusForwardOnly ==
    [][ \A s \in Slots :
          slot'[s].status # slot[s].status
          => <<slot[s].status, slot'[s].status>>
                \in {<<"OPEN", "CLOSED">>, <<"CLOSED", "COMPLETED">>}
      ]_vars

\* C11: a slot has a DrawResult exactly when its status is COMPLETED.
C11_DrawIffCompleted ==
    \A s \in Slots : HasDraw(s) <=> slot[s].status = "COMPLETED"

\* C12: a Bid row is stored only while its slot is OPEN and the clock has not passed
\* windowCloseAt, and never once an announceResult call has read the slot's bids.
C12_NoBidAfterClose ==
    [][ Len(bids') > Len(bids)
        => LET b == bids'[Len(bids')]
           IN /\ slot[b.slot].status = "OPEN"
              /\ ~ (now > slot[b.slot].windowCloseAt)
              /\ ~ HasDraw(b.slot)
              /\ \A c \in Callers : ~ (ann[c].pc # "idle" /\ ann[c].slot = b.slot)
      ]_vars

\* C13: announceResult called on an OPEN slot before windowCloseAt is rejected and
\* changes nothing: the call goes no further than its guard, and the step that
\* rejects it leaves wallets, ledger, DrawResults and the slot as they were.
C13_EarlyAnnounceRejected ==
    [][ /\ ( /\ lastOp' # lastOp
             /\ lastOp'.op = "announceResult"
             /\ lastOp'.result = "WindowNotClosed" )
           => /\ slot[lastOp'.user].status = "OPEN"
              /\ slot'[lastOp'.user].status = "OPEN"
              /\ wallet' = wallet
              /\ ledger' = ledger
              /\ draws' = draws
              /\ slot' = slot
              /\ ann' = ann
        /\ \A c \in Callers :
              (ann[c].pc = "idle" /\ ann'[c].pc # "idle")
              => ~ ( /\ slot[ann'[c].slot].status = "OPEN"
                     /\ now < slot[ann'[c].slot].windowCloseAt )
      ]_vars

\* an early announceResult turned away on a slot that already holds a bid
C13_Witness ==
    /\ lastOp.op = "announceResult"
    /\ lastOp.result = "WindowNotClosed"
    /\ HasBids(lastOp.user)
    /\ slot[lastOp.user].status = "OPEN"
    /\ now < slot[lastOp.user].windowCloseAt
    /\ draws = {}

\* C14: creditWinning with amount > 0 on an existing wallet adds exactly the amount to
\* reservedWinning, leaves totalBalance and the other wallets alone and appends one
\* WIN_CREDIT entry; for a user without a wallet it fails with not-found and
\* creates neither a wallet nor a ledger entry.
C14_CreditWinningContract ==
    [][ (lastOp'.op = "creditWinning" /\ lastOp'.amount > 0)
        => LET u == lastOp'.user
               a == lastOp'.amount
               w == wallet[u]
           IN /\ w.exists
                 => /\ lastOp'.result = "ok"
                    /\ wallet'[u].exists
                    /\ wallet'[u].reservedWinning = w.reservedWinning + a
                    /\ wallet'[u].totalBalance = w.totalBalance
                    /\ \A v \in Users \ {u} : wallet'[v] = wallet[v]
                    /\ Len(ledger') = Len(ledger) + 1
                    /\ SubSeq(ledger', 1, Len(ledger)) = ledger
                    /\ ledger'[Len(ledger')].type = "WIN_CREDIT"
                    /\ ledger'[Len(ledger')].user = u
                    /\ ledger'[Len(ledger')].amount = a
              /\ ~ w.exists
                 => /\ lastOp'.result = "WalletNotFound"
                    /\ wallet' = wallet
                    /\ ledger' = ledger
      ]_vars

\* a winning reserved on a wallet that holds money
C14_Witness ==
    /\ lastOp.op = "creditWinning"
    /\ lastOp.result = "ok"
    /\ wallet[lastOp.user].reservedWinning = lastOp.amount
    /\ wallet[lastOp.user].totalBalance > 0
    /\ ledger[Len(ledger)].type = "WIN_CREDIT"

\* C15: winningSettlementToUser with amount > 0 on an existing wallet succeeds
\* exactly when reservedWinning >= amount; on success reservedWinning and
\* totalBalance both drop by the amount, so availableBalance stays, and one
\* WIN_SETTLEMENT_AGENT_TO_USER entry of -amount is appended; otherwise the call
\* fails with the insufficient-reserve error and changes nothing.
C15_SettleToUserContract ==
    [][ ( /\ lastOp'.op = "winningSettlementToUser"
          /\ lastOp'.amount > 0
          /\ wallet[lastOp'.user].exists )
        => LET u == lastOp'.user
               a == lastOp'.amount
               w == wallet[u]
           IN /\ (lastOp'.result = "ok") <=> (w.reservedWinning >= a)
              /\ lastOp'.result = "ok"
                 => /\ wallet'[u].reservedWinning = w.reservedWinning - a
                    /\ wallet'[u].totalBalance = w.totalBalance - a
                    /\ computeAvailable(wallet'[u]) = computeAvailable(w)
                    /\ \A v \in Users \ {u} : wallet'[v] = wallet[v]
                    /\ Len(ledger') = Len(ledger) + 1
                    /\ SubSeq(ledger', 1, Len(ledger)) = ledger
                    /\ ledger'[Len(ledger')].type = "WIN_SETTLEMENT_AGENT_TO_USER"
                    /\ ledger'[Len(ledger')].user = u
                    /\ ledger'[Len(ledger')].amount = -a
              /\ lastOp'.result # "ok"
                 => /\ lastOp'.result = "ReservedWinningNotEnough"
                    /\ wallet' = wallet
                    /\ ledger' = ledger
      ]_vars

\* a reserved winning of 50.00 handed to the user in full
C15_Witness ==
    /\ lastOp.op = "winningSettlementToUser"
    /\ lastOp.result = "ok"
    /\ lastOp.amount = 5000
    /\ wallet[lastOp.user].reservedWinning = 0
    /\ wallet[lastOp.user].totalBalance = -5000
    /\ ledger[Len(ledger)].type = "WIN_SETTLEMENT_AGENT_TO_USER"
    /\ ledger[Len(ledger)].amount = -5000

\* C16: reservedWinning of every wallet is never negative, whatever calls of
\* creditWinning and winningSettlementToUser run one after the other or overlap.
C16_ReservedNonNegative ==
    \A u \in Users : wallet[u].reservedWinning >= 0

\* two settlements of the whole reservation that both read it before either wrote
C16_Witness ==
    \E p, q \in Procs :
        /\ p # q
        /\ txn.procs[p].pc = "done"
        /\ txn.procs[q].pc = "done"
        /\ txn.procs[p].op = "winningSettlementToUser"
        /\ txn.procs[q].op = "winningSettlementToUser"
        /\ txn.procs[p].user = txn.procs[q].user
        /\ txn.procs[p].seen = txn.procs[q].seen
        /\ txn.procs[p].seen.reservedWinning = txn.procs[p].amount
        /\ txn.procs[q].amount = txn.procs[p].amount
        /\ wallet[txn.procs[p].user].reservedWinning = 0

\* C17: settleCommissionByAdmin and adminProcessWithdraw with amount > 0 on an
\* existing wallet succeed exactly when amount <= totalBalance - reservedWinning;
\* on success totalBalance drops by the amount and reservedWinning stays, so the
\* availableBalance they leave is not negative; a refused call changes nothing.
C17_PayOutContract ==
    [][ ( /\ lastOp'.op \in {"settleCommissionByAdmin", "adminProcessWithdraw"}
          /\ lastOp'.amount > 0
          /\ wallet[lastOp'.user].exists )
        => LET u == lastOp'.user
               a == lastOp'.amount
               w == wallet[u]
           IN /\ (lastOp'.result = "ok") <=> (a <= w.totalBalance - w.reservedWinning)
              /\ lastOp'.result = "ok"
                 => /\ wallet'[u].totalBalance = w.totalBalance - a
                    /\ wallet'[u].reservedWinning = w.reservedWinning
                    /\ computeAvailable(wallet'[u]) >= 0
                    /\ \A v \in Users \ {u} : wallet'[v] = wallet[v]
                    /\ Len(ledger') = Len(ledger) + 1
                    /\ ledger'[Len(ledger')].amount = -a
                    /\ ledger'[Len(ledger')].type =
                          IF lastOp'.op = "adminProcessWithdraw"
                          THEN "WITHDRAW" ELSE "COMMISSION_SETTLEMENT"
              /\ lastOp'.result # "ok" => (wallet' = wallet /\ ledger' = ledger)
      ]_vars

\* a withdrawal of more than is available refused on a wallet that holds 50.00, all
\* of it reserved
C17_Witness ==
    /\ lastOp.op \in {"settleCommissionByAdmin", "adminProcessWithdraw"}
    /\ lastOp.amount = 5000
    /\ lastOp.result = "InsufficientAvailable"
    /\ wallet[lastOp.user].totalBalance = 5000
    /\ wallet[lastOp.user].reservedWinning = 5000

\* C18: requestBidDeposit with amount > 0 appends one PENDING BID_CREDIT row and
\* leaves totalBalance and reservedWinning as they were; approveDeposit with
\* approve = true on a deposit row adds exactly the row's amount to totalBalance and
\* marks that row APPROVED with balanceAfter = the new total; with approve = false it
\* marks the row DECLINED and leaves the wallets alone.
C18_DepositContract ==
    [][ /\ (lastOp'.op = "requestBidDeposit" /\ lastOp'.amount > 0)
           => LET u == lastOp'.user
              IN /\ lastOp'.result = "ok"
                 /\ Len(ledger') = Len(ledger) + 1
                 /\ SubSeq(ledger', 1, Len(ledger)) = ledger
                 /\ ledger'[Len(ledger')].type = "BID_CREDIT"
                 /\ ledger'[Len(ledger')].status = "PENDING"
                 /\ ledger'[Len(ledger')].user = u
                 /\ ledger'[Len(ledger')].amount = lastOp'.amount
                 /\ wallet'[u].totalBalance = wallet[u].totalBalance
                 /\ wallet'[u].reservedWinning = wallet[u].reservedWinning
                 /\ \A v \in Users \ {u} : wallet'[v] = wallet[v]
        /\ ( /\ lastOp'.op \in {"approveDeposit", "declineDeposit"}
             /\ lastOp'.tx \in DOMAIN ledger
             /\ ledger[lastOp'.tx].type = "BID_CREDIT" )
           => LET id == lastOp'.tx
                  u == ledger[id].user
              IN /\ lastOp'.result = "ok"
                 /\ Len(ledger') = Len(ledger)
                 /\ \A i \in DOMAIN ledger \ {id} : ledger'[i] = ledger[i]
                 /\ ledger'[id].amount = ledger[id].amount
                 /\ ledger'[id].type = "BID_CREDIT"
                 /\ \A v \in Users \ {u} : wallet'[v] = wallet[v]
                 /\ wallet'[u].reservedWinning = wallet[u].reservedWinning
                 /\ lastOp'.op = "approveDeposit"
                    => /\ wallet'[u].totalBalance =
                             wallet[u].totalBalance + ledger[id].amount
                       /\ ledger'[id].status = "APPROVED"
                       /\ ledger'[id].balanceAfter = wallet'[u].totalBalance
                 /\ lastOp'.op = "declineDeposit"
                    => /\ wallet'[u].totalBalance = wallet[u].totalBalance
                       /\ ledger'[id].status = "DECLINED"
                       /\ ledger'[id].balanceAfter = ledger[id].balanceAfter
      ]_vars

\* a deposit of 50.00 requested on a wallet in debt by 50.00 and then approved
C18_Witness ==
    /\ lastOp.op = "approveDeposit"
    /\ lastOp.result = "ok"
    /\ ledger[lastOp.tx].status = "APPROVED"
    /\ ledger[lastOp.tx].amount = 5000
    /\ ledger[lastOp.tx].balanceAfter = 0
    /\ wallet[ledger[lastOp.tx].user].totalBalance = 0

\* C19: a createBid call turned away by validation or by debitForBid stores no Bid row
\* and leaves wallets and ledger as they were: the rejecting step writes nothing, a
\* call writes nothing before its debit, and every stored Bid row carries a payload
\* that passes validation.
C19_RejectedBidLeavesNoTrace ==
    [][ /\ ( /\ lastOp' # lastOp
             /\ lastOp'.op = "createBid"
             /\ lastOp'.result \in
                   {"SlotNotOpen", "WindowClosed", "NumberOutOfRange", "CountNotPositive",
                    "NotSixNumbers", "JpNumberOutOfRange", "MaxUnits",
                    "WalletNotFound", "NegativeLimitExceeded"} )
           => (bids' = bids /\ wallet' = wallet /\ ledger' = ledger)
        /\ \A u \in Agents :
              /\ (place[u].pc = "idle" /\ place'[u].pc = "debit")
                 => (bids' = bids /\ wallet' = wallet /\ ledger' = ledger)
              /\ (place[u].pc = "debit" /\ place'[u].pc = "idle")
                 => /\ lastOp'.op = "createBid"
                    /\ lastOp'.result \in {"WalletNotFound", "NegativeLimitExceeded"}
                    /\ bids' = bids /\ wallet' = wallet /\ ledger' = ledger
        /\ \A i \in DOMAIN bids' :
              LET b == bids'[i]
              IN IF slot[b.slot].type = "LD"
                 THEN b.number \in 1..37 /\ b.count > 0
                 ELSE /\ Len(b.jpNumbers) = 6
                      /\ \A k \in DOMAIN b.jpNumbers : b.jpNumbers[k] \in 1..37
      ]_vars

\* an agent who has placed a bid is refused a stake that would take the wallet
\* past the negative limit
C19_Witness ==
    /\ lastOp.op = "createBid"
    /\ lastOp.result = "NegativeLimitExceeded"
    /\ Len(bids) = 1
    /\ \A u \in Agents : wallet[u].exists /\ place[u].pc = "idle"
    /\ wallet[lastOp.user].totalBalance = -90
    /\ ledger[Len(ledger)].type = "COMMISSION_CREDIT"

\* C20: an announceResult call that finds no real winning unit (R = 0) computes
\* payoutToReal = 0 whatever the ceiling M, credits nobody, and ends with the
\* slot's DrawResult stored with payoutTotal 0 and the slot COMPLETED.
C20_NoWinnerStillCompletes ==
    [][ \A c \in Callers :
          /\ (ann[c].pc = "idle" /\ ann'[c].pc # "idle" /\ ann'[c].R = 0)
             => (ann'[c].eng.payoutToReal = 0 /\ ann'[c].pc = "persist")
          /\ (ann[c].pc # "idle" /\ ann[c].R = 0 /\ ann'[c] # ann[c])
             => /\ wallet' = wallet
                /\ ledger' = ledger
                /\ ann'[c].pc # "credit"
          /\ (ann[c].pc # "idle" /\ ann[c].R = 0 /\ ann'[c].pc = "idle")
             => /\ lastOp'.result = "ok"
                /\ slot'[ann[c].slot].status = "COMPLETED"
                /\ \E d \in draws' :
                      /\ d.slot = ann[c].slot
                      /\ d.winner = ann[c].winner
                      /\ d.payoutTotal = 0
      ]_vars

\* C21: with collected = 1000.00, minProfitPct = 0.15, W = 3300.00 and R = 5 real
\* units on the winning number the engine computes M = 850.00, dummyUnits = 15,
\* perUnitPayout = 165.00 and payoutToReal = 825.00.
C21_WorkedExample ==
    ( /\ calc.pc = "done"
      /\ calc.collected = 100000
      /\ calc.cfg.minProfitPct = 15
      /\ calc.cfg.winningPrize = 330000
      /\ calc.R = 5 )
    => /\ calc.M = 85000
       /\ calc.eng.dummyUnits = 15
       /\ calc.eng.unitPrize = 16500
       /\ calc.eng.payoutToReal = 82500

\* the engine has run on the example, under the per-number cap
C21_Witness ==
    /\ calc.pc = "done"
    /\ calc.cfg.rev = "capped"
    /\ calc.type = "LD"
    /\ calc.collected = 100000
    /\ calc.cfg.minProfitPct = 15
    /\ calc.cfg.winningPrize = 330000
    /\ calc.counts = <<5>>
    /\ calc.R = 5
    /\ calc.eng.payoutToReal = 82500

\* C22: for R > 0 and M > 0, where no per-number cap applies, the dummyUnits D the
\* engine computes is the smallest non-negative integer with (W / (R + D)) * R <= M;
\* D = 0 whenever W <= M.
C22_DummyUnitsMinimal ==
    ( /\ calc.pc = "done"
      /\ calc.R > 0
      /\ calc.M > 0
      /\ (calc.cfg.rev = "uncapped" \/ calc.type = "JP") )
    => LET W == calc.cfg.winningPrize
           R == calc.R
           M == calc.M
           D == calc.eng.dummyUnits
       IN /\ D >= 0
          /\ W * R <= M * (R + D)
          /\ D > 0 => W * R > M * (R + D - 1)
          /\ W <= M => D = 0

\* a prize of 500.00 under a ceiling of 850.00 needs no dummy unit; 3300.00 does
C22_Witness ==
    /\ calc.pc = "done"
    /\ calc.cfg.rev = "uncapped"
    /\ calc.R = 5
    /\ calc.M = 85000
    /\ \/ calc.cfg.winningPrize = 50000 /\ calc.eng.dummyUnits = 0
       \/ calc.cfg.winningPrize = 330000 /\ calc.eng.dummyUnits = 15

\* C23: an announceResult call that credits winners tries every winning bid, also
\* after a credit has failed: it gives up only once the last winner has had its
\* turn, and its failure list grows by exactly the bids that got no WIN_CREDIT.
C23_AllWinnersAttempted ==
    [][ \A c \in Callers :
          /\ ( /\ ann[c].pc = "credit"
               /\ ann'[c].pc = "idle"
               /\ lastOp'.result # "ok" )
             => Tail(ann[c].queue) = <<>>
          /\ (ann[c].pc = "credit" /\ ann'[c] # ann[c] /\ ann'[c].pc # "idle")
             => ann'[c].failed =
                   IF ledger' = ledger
                   THEN Append(ann[c].failed, Head(ann[c].queue).id)
                   ELSE ann[c].failed
      ]_vars

\* C24: when an announceResult call gives up because credits failed, the winnings it
\* has reserved stay reserved and their ledger rows stay, the slot has no DrawResult
\* and is not COMPLETED, so that it can be announced again; and a call that starts
\* crediting queues every winning bid of the slot, credited before or not.
C24_AbortKeepsCreditsAndSlot ==
    [][ \A c \in Callers :
          /\ ( /\ ann[c].pc = "credit"
               /\ ann'[c].pc = "idle"
               /\ lastOp'.result # "ok" )
             => /\ \A u \in Users :
                      wallet'[u].reservedWinning >= wallet[u].reservedWinning
                /\ SubSeq(ledger', 1, Len(ledger)) = ledger
                /\ slot'[ann[c].slot].status # "COMPLETED"
                /\ ~ \E d \in draws' : d.slot = ann[c].slot
          /\ (ann[c].pc # "credit" /\ ann'[c].pc = "credit")
             => ann'[c].queue =
                   WinningBids(bids, ann'[c].slot, slot[ann'[c].slot].type, ann'[c].winner)
      ]_vars

\* C25: an announceResult call with real winning units (R > 0) and a ceiling M <= 0
\* computes dummyUnits = 0, perUnitPayout = 0 and payoutToReal = 0, credits nobody,
\* and ends with the DrawResult stored and the slot COMPLETED.
C25_NothingToPayStillCompletes ==
    [][ \A c \in Callers :
          /\ (ann[c].pc = "idle" /\ ann'[c].pc # "idle" /\ ann'[c].R > 0 /\ ann'[c].M <= 0)
             => /\ ann'[c].eng.dummyUnits = 0
                /\ ann'[c].eng.unitPrize = 0
                /\ ann'[c].eng.payoutToReal = 0
                /\ ann'[c].pc = "persist"
          /\ (ann[c].pc # "idle" /\ ann[c].R > 0 /\ ann[c].M <= 0 /\ ann'[c] # ann[c])
             => /\ wallet' = wallet
                /\ ledger' = ledger
                /\ ann'[c].pc # "credit"
          /\ (ann[c].pc # "idle" /\ ann[c].R > 0 /\ ann[c].M <= 0 /\ ann'[c].pc = "idle")
             => /\ lastOp'.result = "ok"
                /\ slot'[ann[c].slot].status = "COMPLETED"
                /\ \E d \in draws' :
                      /\ d.slot = ann[c].slot
                      /\ d.winner = ann[c].winner
                      /\ d.dummyUnits = 0
                      /\ d.perUnitPayout = 0
                      /\ d.payoutTotal = 0
      ]_vars

\* C26: when winners are credited, a winning bid of count units (one unit for a JP
\* bid) gets round2(W * count / (R + D)): the unrounded unit rate times the stake,
\* rounded once.
C26_CreditsFromRawRate ==
    (calc.pc = "done" /\ calc.R > 0 /\ calc.eng.payoutToReal > 0)
    => LET counts == WinnerCounts(calc.type, calc.counts)
       IN /\ Len(calc.credits) = Len(counts)
          /\ \A i \in DOMAIN counts :
                calc.credits[i] = Round2(calc.cfg.winningPrize * counts[i],
                                         calc.R + calc.eng.dummyUnits)

\* C27: when the scheduled announcer handles a slot that has bids, its candidates
\* are at most 5 numbers/combos that have bids, none of them with more real units
\* than a number/combo with bids left out, and the winner it announces is a
\* candidate whose projected profit collected - payoutToReal is maximal among the
\* candidates, with no candidate of equal profit having fewer real units.
C27_AutoPicksAmongBidNumbers ==
    LET WithBids == {e \in Range(auto.map) : e.units > 0}
        C == AutoCollected(auto.type, auto.map)
        M == AutoMaxAllowedPayout(auto.pct, C)
        Ev(e) == Evaluate(e, auto.type, auto.W, M, C)
    IN (auto.pc = "done" /\ WithBids # {})
       => /\ Len(auto.cand) \in 1..MaxCandidates
          /\ Range(auto.cand) \subseteq WithBids
          /\ \A c \in Range(auto.cand) : \A e \in WithBids \ Range(auto.cand) :
                c.units <= e.units
          /\ \E c \in Range(auto.cand) : auto.best = Ev(c)
          /\ \A c \in Range(auto.cand) :
                /\ Ev(c).profit <= auto.best.profit
                /\ Ev(c).profit = auto.best.profit => auto.best.realUnits <= c.units

\* C28: in the capped revision, for an LD slot with R > 0 and M > 0 whose dummy
\* count would take the winning number past the maximum units per number, the
\* engine records D = 0 and U = round2(M / R), and payoutToReal equals the
\* ceiling M.
C28_ScaledFallbackPaysCeiling ==
    (/\ calc.pc = "done"
     /\ calc.cfg.rev = "capped"
     /\ calc.type = "LD"
     /\ calc.R > 0
     /\ calc.M > 0
     /\ calc.R + DummyUnits(calc.cfg.winningPrize, calc.R, calc.M) > LdBidLimitPerNumber)
    => /\ calc.eng.scaled
       /\ calc.eng.dummyUnits = 0
       /\ calc.eng.unitPrize = Round2(calc.M, calc.R)
       /\ calc.eng.payoutToReal = calc.M

\* C29: with R > 0, a run of the computation on the same slot, bids, settings and
\* winner but with other random draws (for the display map and the display unit
\* value) gives the same dummyUnits, perUnitPayout, payoutTotal and the same
\* amounts to the same winning bids.
C29_DisplayMapNeverDrivesMoney ==
    (calc.pc = "done" /\ calc.R > 0)
    => \A d \in CosmeticDraws, p \in DisplayUnitValues :
          LET other == EngineResult([calc EXCEPT !.draw = d, !.p = p])
          IN /\ other.eng.dummyUnits = calc.eng.dummyUnits
             /\ other.eng.unitPrize = calc.eng.unitPrize
             /\ other.eng.payoutToReal = calc.eng.payoutToReal
             /\ other.R = calc.R
             /\ other.M = calc.M
             /\ other.credits = calc.credits

\* winners were credited and another draw would have displayed another map
C29_Witness ==
    /\ calc.pc = "done"
    /\ calc.cfg.rev = "uncapped"
    /\ calc.R > 0
    /\ calc.credits # <<>>
    /\ \E d \in CosmeticDraws :
          EngineResult([calc EXCEPT !.draw = d]).cosmetic # calc.cosmetic

\* C30: a ledger row is never removed, a row that is not a deposit row is never
\* modified, and a deposit row is modified only while PENDING, its status going
\* to APPROVED or DECLINED: once APPROVED or DECLINED no later call changes it.
C30_LedgerRowsSettleOnce ==
    [][ \A i \in DOMAIN ledger :
           /\ i \in DOMAIN ledger'
           /\ ledger'[i] # ledger[i]
              => /\ ledger[i].type = "BID_CREDIT"
                 /\ ledger[i].status = "PENDING"
                 /\ ledger'[i].status \in {"APPROVED", "DECLINED"} ]_vars

\* C31: in the uncapped revision, with no real winner and W = 3300.00, the
\* dummyUnits recorded is ceil(W / p) for an integer p in 20..50, so it lies in
\* 66..165, perUnitPayout is W / dummyUnits rounded to cents, and nothing is paid.
C31_NoWinnerDisplayUnits ==
    (/\ calc.pc = "done"
     /\ calc.cfg.rev = "uncapped"
     /\ calc.R = 0
     /\ calc.cfg.winningPrize = 330000)
    => /\ \E p \in 20..50 : calc.eng.dummyUnits = CeilDiv(330000, 100 * p)
       /\ calc.eng.dummyUnits \in 66..165
       /\ calc.eng.unitPrize = Round2(330000, calc.eng.dummyUnits)
       /\ calc.eng.payoutToReal = 0
       /\ calc.credits = <<>>

\* no winner, the lowest unit value drawn: 165 dummy units at 20.00
C31_Witness ==
    /\ calc.pc = "done"
    /\ calc.cfg.rev = "uncapped"
    /\ calc.R = 0
    /\ calc.cfg.winningPrize = 330000
    /\ calc.eng.dummyUnits = 165
    /\ calc.eng.unitPrize = 2000

\* C32: when two announceResult calls for the same slot overlap, the slot gets at
\* most one DrawResult, a call that returns ok leaves exactly one, and no winning
\* bid has its payout reserved by more than one WIN_CREDIT.
C32_RaceCreditsOnce ==
    /\ \A s \in Slots : Cardinality({d \in draws : d.slot = s}) <= 1
    /\ \A s \in Slots : slot[s].status = "COMPLETED" => HasDraw(s)
    /\ \A i \in DOMAIN bids : WinCredits(bids[i].id) <= 1

\* C33: under fair scheduling of the cron jobs every OPEN slot whose
\* windowCloseAt has passed is eventually CLOSED, and every CLOSED slot whose
\* slotTime has passed and that has no DrawResult is eventually COMPLETED with
\* its DrawResult; one slot failing does not stop the others of the run.
C33_CronClosesAndAnnounces ==
    \A s \in CronSlots :
        /\ (slot[s].status = "OPEN" /\ slot[s].windowCloseAt <= now) ~> (slot[s].status # "OPEN")
        /\ (slot[s].status = "CLOSED" /\ slotTime(s) <= now /\ ~HasDraw(s))
              ~> (slot[s].status = "COMPLETED" /\ HasDraw(s))

\* C34: when the announcer hands its pick to announceResult, the payoutToReal it
\* projected for the pick is the payoutToReal announceResult computes for the
\* same slot and bids, and for a pick with real units so are the dummy units
\* and the unit prize.
C34_ProjectionIsAnnounced ==
    [][(auto.cand # <<>> /\ auto'.cand = <<>> /\ ann'["SYSTEM"].pc # "idle")
         => LET eng == ann'["SYSTEM"].eng
                proj == PayoutCapped(cfg.winningPrize, auto.best.realUnits,
                                     AutoMaxAllowedPayout(cfg.minProfitPct,
                                                          collected(bids, Head(auto.queue))),
                                     slot[Head(auto.queue)].type)
            IN /\ eng.payoutToReal = auto.best.payoutToReal
               /\ (auto.best.realUnits > 0
                     => (eng.dummyUnits = proj.dummyUnits /\ eng.unitPrize = proj.unitPrize))]_vars

\* C35: createBid is all-or-nothing for the wallet debit: once no createBid call
\* of an agent is in flight, each of the agent's BID_DEBIT entries has its Bid
\* row, and a call that ended in an error has left no BID_DEBIT behind.
C35_DebitOnlyWithBid ==
    \A u \in Agents :
        place[u].pc = "idle"
          => BidDebits(u) = Cardinality({i \in DOMAIN bids : bids[i].user = u})

\* C36: for every COMPLETED slot with a DrawResult, once no announceResult call
\* is in flight, the WIN_CREDIT amounts reserved for the slot's bids add up to
\* the payoutTotal of the DrawResult, up to one cent per winning bid.
C36_CreditsAddUpToPayoutTotal ==
    \A s \in Slots, d \in draws :
        (d.slot = s /\ slot[s].status = "COMPLETED" /\ \A c \in DOMAIN ann : ann[c].pc = "idle")
          => LET rows == SelectSeq(ledger, LAMBDA t : /\ t.type = "WIN_CREDIT"
                                                      /\ \E i \in DOMAIN bids :
                                                            bids[i].id = t.bid /\ bids[i].slot = s)
                 credited == SumSeq([i \in DOMAIN rows |-> rows[i].amount])
                 n == Len(WinningBids(bids, s, slot[s].type, d.winner))
             IN credited - d.payoutTotal <= n /\ d.payoutTotal - credited <= n

\* C37: while only debitForBid calls run on a wallet, however they interleave,
\* its availableBalance stays at or above -agentNegativeBalanceLimt, and the
\* debits that were applied fit the limit together: what was available before
\* them, less their amounts, is not below the limit.
C37_ConcurrentDebitsWithinLimit ==
    \A u \in Agents :
        LET applied == {p \in Procs : /\ txn.procs[p].pc = "done"
                                      /\ txn.procs[p].op = "debitForBid"
                                      /\ txn.procs[p].user = u}
            total == SumSeq([p \in Procs |-> IF p \in applied THEN txn.procs[p].amount ELSE 0])
        IN ((\A p \in Procs : txn.procs[p].op \in {"none", "debitForBid"}) /\ applied # {})
             => /\ computeAvailable(wallet[u]) >= -AgentNegativeBalanceLimt
                /\ computeAvailable(txn.base[u]) - total >= -AgentNegativeBalanceLimt

\* C38: every agent who holds a bid has a wallet, at announcement as at any other
\* time, so the creditWinning of a winning bid never ends in 'Wallet not found'.
C38_BiddersHaveWallets ==
    /\ \A i \in DOMAIN bids : wallet[bids[i].user].exists
    /\ \A c \in DOMAIN ann :
          (ann[c].pc = "credit" /\ ann[c].queue # <<>>)
            => LET b == Head(ann[c].queue)
               IN CreditWinningResult(wallet[b.user],
                                      BidPayout(ann[c].eng, b, slot[ann[c].slot].type))
                    # "WalletNotFound"

\* a winning bid has been credited to the wallet of the agent who placed it
C38_Witness ==
    \E i \in DOMAIN ledger, j \in DOMAIN bids :
        /\ ledger[i].type = "WIN_CREDIT"
        /\ ledger[i].bid = bids[j].id
        /\ ledger[i].user = bids[j].user
        /\ wallet[bids[j].user].exists

InitConc ==
    /\ wallet = [u \in Users |-> NoWallet]
    /\ ledger = <<>>
    /\ lastOp = NoOp
    /\ nops = 0
    /\ txn = [base |-> wallet, procs |-> [p \in Procs |-> NoTx]]
    /\ cfg = [rev |-> "uncapped", winningPrize |-> 330000, minProfitPct |-> 15,
              commissionPct |-> CommissionPct]
    /\ now = 0
    /\ slot = [s \in Slots |-> [type |-> "LD", status |-> "OPEN", windowCloseAt |-> 1]]
    /\ bids = <<>>
    /\ draws = {}
    /\ ann = [c \in Callers |-> Idle]
    /\ attempts = 0
    /\ place = [u \in Agents |-> NotPlacing]
    /\ calc = NoCalc
    /\ auto = NoAuto

NextConc ==
    \/ \E u \in Agents, a \in Amounts \ {0} : SetupCommission(u, a)
    \/ \E u \in Agents, a \in Amounts \ {0} : SetupWinning(u, a)
    \/ \E p \in Procs, op \in TxOps, u \in Agents, a \in Amounts \ {0} : TxBegin(p, op, u, a)
    \/ \E p \in Procs : TxCommit(p)

SpecConc == InitConc /\ [][NextConc]_vars

====
